---------------------------- MODULE Spec2Model ----------------------------
(***************************************************************************)
(* csvlang: the tree-walking evaluator (evaluator/evaluator.go,            *)
(* evaluator/builtins.go) over the value model and the environment         *)
(* (object/object.go, object/environment.go).                              *)
(*                                                                         *)
(* A program is a sequence of statement nodes.  evalProgram's loop is the  *)
(* step of the machine: one top-level statement per step, evaluated by the *)
(* recursive operator Eval against a heap of environments and arrays and a *)
(* file system.  Strings are sequences of one-character strings, so that   *)
(* strconv.ParseInt, fmt's %d and strings.Join are computed, not assumed.  *)
(***************************************************************************)
EXTENDS Integers, Sequences, FiniteSets, TLC

VARIABLES
    lexer,    \* StartLexer: the lexer l over the file
    tokens,   \* StartLexer: the tokens printed so far
    script,   \* the content of the file the driver runs
    errors,   \* parser.Parser.Errors: the messages recorded while parsing
    prog,     \* ast.Program.Statements: the parsed program
    pc,       \* evalProgram: index of the next top-level statement
    result,   \* evalProgram: `result`, the value of the last statement
    halted,   \* evalProgram has returned
    envs,     \* heap of object.Environment: <<[store, outer]>>, 1 is the global one
    arrs,     \* heap of object.Array: Elements of each array object
    tbls,     \* heap of object.CSV: <<[headers, ctypes, rows]>>, rows a slice
    rowArrs,  \* heap of the backing arrays of the Rows slices
    files,    \* the file system: file name -> content
    log,      \* history: the value of each top-level statement evaluated so far
    trace     \* history: each statement node Eval entered, in order

vars == <<lexer, tokens, script, errors, prog, pc, result, halted, envs, arrs, tbls, rowArrs,
          files, log, trace>>

---------------------------------------------------------------------------
(* Bounds of the model *)

MaxStmts == 3
MaxRows == 2
MaxInt == 1
MaxLen == 2

---------------------------------------------------------------------------
(* Values: object.Object *)

NULL == [t |-> "NULL"]
TRUE_ == [t |-> "BOOLEAN", b |-> TRUE]
FALSE_ == [t |-> "BOOLEAN", b |-> FALSE]
\* Go's nil interface value (a statement that yields nothing)
Nil == [t |-> "nil"]
\* a Go run-time panic: the interpreter aborts
Panic == [t |-> "panic"]

Integer(n) == [t |-> "INTEGER", i |-> n]
String(s) == [t |-> "STRING", s |-> s]
ReturnValue(v) == [t |-> "RETURN_VALUE", rv |-> v]
Function(params, body, env) ==
    [t |-> "FUNCTION", params |-> params, body |-> body, env |-> env]
Builtin(name) == [t |-> "BUILTIN", name |-> name]
Array(id) == [t |-> "ARRAY", a |-> id]
\* the fields of an object.CSV, with the rows its Rows slice shows
CSV(headers, ctypes, rows) ==
    [t |-> "CSV", headers |-> headers, ctypes |-> ctypes, rows |-> rows]
\* a *object.CSV: the object tbls[id]
CSVRef(id) == [t |-> "CSV", ref |-> id]

\* a Go slice of rows: len elements of backing array arr from offset off on;
\* the nil slice has no backing array
Slice(arr, off, len) == [arr |-> arr, off |-> off, len |-> len]
NilSlice == Slice(0, 0, 0)
SliceRows(backing, slice) ==
    IF slice.len = 0 THEN <<>>
    ELSE SubSeq(backing[slice.arr], slice.off + 1, slice.off + slice.len)

\* the fields of the object a CSV value points to
CSVAt(tables, backing, obj) ==
    CSV(tables[obj.ref].headers, tables[obj.ref].ctypes,
        SliceRows(backing, tables[obj.ref].rows))

\* the message is kept as the sequence of its parts, each a string
newError(parts) == [t |-> "ERROR", msg |-> parts]

isError(obj) == obj.t = "ERROR"

nativeBoolToBooleanObject(input) == IF input THEN TRUE_ ELSE FALSE_

\* a result of Eval: the value and the state it leaves
R(v, st) == [v |-> v, st |-> st]

\* a fresh slice holding rows: make and fill, or append to a nil slice (which
\* stays nil when nothing is appended)
newRows(st, rows) ==
    [slice |-> Slice(Len(st.rowArrs) + 1, 0, Len(rows)),
     st |-> [st EXCEPT !.rowArrs = Append(@, rows)]]
appendedRows(st, rows) ==
    IF rows = <<>> THEN [slice |-> NilSlice, st |-> st] ELSE newRows(st, rows)

\* &object.CSV{...}: a new object on the heap
newCSV(st, headers, ctypes, slice) ==
    R(CSVRef(Len(st.tbls) + 1),
      [st EXCEPT !.tbls = Append(@, [headers |-> headers, ctypes |-> ctypes,
                                     rows |-> slice])])

---------------------------------------------------------------------------
(* Strings *)

Digits == <<"0", "1", "2", "3", "4", "5", "6", "7", "8", "9">>

IsDigit(c) == \E d \in 1..10 : Digits[d] = c

DigitVal(c) == (CHOOSE d \in 1..10 : Digits[d] = c) - 1

RECURSIVE DigitsVal(_, _)
DigitsVal(s, acc) ==
    IF s = <<>> THEN acc ELSE DigitsVal(Tail(s), acc * 10 + DigitVal(Head(s)))

\* strconv.ParseInt(s, 10, 64) and strconv.Atoi(s): an optional sign, then one
\* or more decimal digits and nothing else.  (The cells of the model are far
\* shorter than 19 digits, so the range error cannot occur.)
ParseInt(s) ==
    LET signed == s # <<>> /\ Head(s) \in {"+", "-"}
        body == IF signed THEN Tail(s) ELSE s
    IN  IF body = <<>> \/ \E j \in 1..Len(body) : ~IsDigit(body[j])
        THEN [ok |-> FALSE, n |-> 0]
        ELSE [ok |-> TRUE,
              n |-> IF signed /\ Head(s) = "-" THEN 0 - DigitsVal(body, 0)
                    ELSE DigitsVal(body, 0)]

RECURSIVE NatToStr(_)
NatToStr(n) ==
    IF n < 10 THEN <<Digits[n + 1]>>
    ELSE NatToStr(n \div 10) \o <<Digits[(n % 10) + 1]>>

\* fmt.Sprintf("%d", n)
IntToStr(n) == IF n < 0 THEN <<"-">> \o NatToStr(0 - n) ELSE NatToStr(n)

\* strings.Join(elems, sep)
RECURSIVE Join(_, _)
Join(elems, sep) ==
    IF elems = <<>> THEN <<>>
    ELSE IF Len(elems) = 1 THEN elems[1]
    ELSE elems[1] \o sep \o Join(Tail(elems), sep)

---------------------------------------------------------------------------
(* object.Environment *)

EmptyStore == [n \in {} |-> NULL]

NewEnvironment == [store |-> EmptyStore, outer |-> 0]

\* NewEnclosedEnvironment: the heap with the new frame appended; its id is the
\* new length of the heap
NewEnclosedEnvironment(es, outer) ==
    Append(es, [store |-> EmptyStore, outer |-> outer])

RECURSIVE EnvGet(_, _, _)
\* variant: a lookup that does not go on to the outer environment
EnvGet_currentOnly(es, e, name) ==
    IF name \in DOMAIN es[e].store THEN [ok |-> TRUE, val |-> es[e].store[name]]
    ELSE [ok |-> FALSE, val |-> Nil]

EnvGet(es, e, name) ==
    IF name \in DOMAIN es[e].store THEN [ok |-> TRUE, val |-> es[e].store[name]]
    ELSE IF es[e].outer # 0 THEN EnvGet(es, es[e].outer, name)
    ELSE [ok |-> FALSE, val |-> Nil]

\* the nearest environment, from e outward, that binds name; e when none does
RECURSIVE Binding(_, _, _, _)
Binding(es, e, from, name) ==
    IF name \in DOMAIN es[from].store THEN from
    ELSE IF es[from].outer # 0 THEN Binding(es, e, es[from].outer, name)
    ELSE e

\* variant: the write goes to the environment that binds the name
EnvSet_whereBound(es, e, name, val) ==
    [es EXCEPT ![Binding(es, e, e, name)].store =
        [n \in (DOMAIN @) \cup {name} |-> IF n = name THEN val ELSE @[n]]]

EnvSet(es, e, name, val) ==
    [es EXCEPT ![e].store =
        [n \in (DOMAIN @) \cup {name} |-> IF n = name THEN val ELSE @[n]]]

GetStore(es, e) == es[e].store

---------------------------------------------------------------------------
(* AST nodes: ast/ast.go.  Names of variables are TLA+ strings; string     *)
(* literals, headers, column names and cells are sequences of characters.  *)

LetStatement(name, value) == [k |-> "LetStatement", name |-> name, value |-> value]
AssignmentStatement(name, value) ==
    [k |-> "AssignmentStatement", name |-> name, value |-> value]
ReturnStatement(value) == [k |-> "ReturnStatement", value |-> value]
ExpressionStatement(expr) == [k |-> "ExpressionStatement", expr |-> expr]
BlockStatement(stmts) == [k |-> "BlockStatement", stmts |-> stmts]
LoadStatement(filename) == [k |-> "LoadStatement", filename |-> filename]
\* Source = "" stands for the nil Source of `save as F`
SaveStatement(source, filename, format) ==
    [k |-> "SaveStatement", source |-> source, filename |-> filename,
     format |-> format]
ForLoopExpression(indexName, elementName, iterable, body) ==
    [k |-> "ForLoopExpression", indexName |-> indexName,
     elementName |-> elementName, iterable |-> iterable, body |-> body]
ForLoopStatement(fl) == [k |-> "ForLoopStatement", fl |-> fl]

IntegerLiteral(n) == [k |-> "IntegerLiteral", int |-> n]
StringLiteral(s) == [k |-> "StringLiteral", str |-> s]
BooleanLit(b) == [k |-> "Boolean", bool |-> b]
Identifier(name) == [k |-> "Identifier", name |-> name]
PrefixExpression(op, right) == [k |-> "PrefixExpression", op |-> op, right |-> right]
InfixExpression(left, op, right) ==
    [k |-> "InfixExpression", left |-> left, op |-> op, right |-> right]
\* alt = NoNode stands for a nil Alternative
IfExpression(cond, cons, alt) ==
    [k |-> "IfExpression", cond |-> cond, cons |-> cons, alt |-> alt]
FunctionLiteral(params, body) ==
    [k |-> "FunctionLiteral", params |-> params, body |-> body]
CallExpression(fn, args) == [k |-> "CallExpression", fn |-> fn, args |-> args]
ArrayLiteral(elems) == [k |-> "ArrayLiteral", elems |-> elems]
IndexExpression(left, index) ==
    [k |-> "IndexExpression", left |-> left, index |-> index]
IndexAssignmentExpression(left, index, value) ==
    [k |-> "IndexAssignmentExpression", left |-> left, index |-> index,
     value |-> value]
NoNode == [k |-> "nil"]
ReadFilterExpression(columnName, operator, value) ==
    [k |-> "ReadFilterExpression", columnName |-> columnName,
     operator |-> operator, value |-> value]
\* LocationExpression: RowIndex -2 is `*`, -1 the parser's INVALID; ColIndex
\* <<>> is ""; Filter NoNode is nil
ReadExpression(rowIndex, colIndex, filter) ==
    [k |-> "ReadExpression", rowIndex |-> rowIndex, colIndex |-> colIndex,
     filter |-> filter]
ReadStatement(re) == [k |-> "ReadStatement", re |-> re]

StatementKinds ==
    {"LetStatement", "AssignmentStatement", "ReturnStatement",
     "ExpressionStatement", "LoadStatement", "SaveStatement",
     "ForLoopStatement", "ReadStatement"}

---------------------------------------------------------------------------
(* The state Eval threads: the heaps, the file system and the history.     *)
(* ctx is the stack of function bodies ("fn") and loop bodies ("for")      *)
(* being evaluated, top the index of the current top-level statement.      *)

\* history: Eval entered a statement node
Enter(st, node) ==
    IF node.k \in StatementKinds
    THEN [st EXCEPT !.trace = Append(@, [ev |-> "enter", node |-> node,
                                        val |-> Nil, ctx |-> st.ctx,
                                        top |-> st.top])]
    ELSE st

\* history: Eval returned val for a statement node
Exit(st, node, val) ==
    IF node.k \in StatementKinds
    THEN [st EXCEPT !.trace = Append(@, [ev |-> "exit", node |-> node,
                                        val |-> val, ctx |-> st.ctx,
                                        top |-> st.top])]
    ELSE st

\* history: iteration i of a for loop over array a ended with the element
\* variable holding val
IterEnd(st, a, i, val) ==
    [st EXCEPT !.trace = Append(@, [ev |-> "iter", node |-> [k |-> "iter", a |-> a, i |-> i],
                                    val |-> val, ctx |-> st.ctx, top |-> st.top])]

\* history: an index assignment stored val at index i of array a
Stored(st, a, i, val) ==
    [st EXCEPT !.trace = Append(@, [ev |-> "store", node |-> [k |-> "store", a |-> a, i |-> i],
                                    val |-> val, ctx |-> st.ctx, top |-> st.top])]

PushCtx(st, c) == [st EXCEPT !.ctx = Append(@, c)]
PopCtx(st) == [st EXCEPT !.ctx = SubSeq(@, 1, Len(@) - 1)]

Absent == [kind |-> "absent"]

Range(s) == {s[j] : j \in 1..Len(s)}

\* row[header] of a Go map[string]string: "" for a missing key
Cell(row, header) == IF header \in DOMAIN row THEN row[header] ELSE <<>>

---------------------------------------------------------------------------
(* Operators of the evaluator that touch no state *)

\* Go's `left == right` on two object.Object interfaces: pointer identity.
\* TRUE, FALSE and NULL are singletons and an array is its heap cell; every
\* other object is allocated by the evaluation that produced it, so two of
\* them are taken to be distinct objects.
SameObject(left, right) ==
    /\ left.t \in {"BOOLEAN", "NULL", "ARRAY"}
    /\ left = right

isTruthy(obj) ==
    IF obj = NULL THEN FALSE
    ELSE IF obj = TRUE_ THEN TRUE
    ELSE IF obj = FALSE_ THEN FALSE
    ELSE TRUE

evalBangOperatorExpression(right) ==
    IF right = TRUE_ THEN FALSE_
    ELSE IF right = FALSE_ THEN TRUE_
    ELSE IF right = NULL THEN TRUE_
    ELSE FALSE_

evalMinusPrefixOperatorExpression(right) ==
    IF right.t # "INTEGER" THEN newError(<<"unknown operator: -", right.t>>)
    ELSE Integer(0 - right.i)

evalPrefixExpression(operator, right) ==
    IF operator = "!" THEN evalBangOperatorExpression(right)
    ELSE IF operator = "-" THEN evalMinusPrefixOperatorExpression(right)
    ELSE newError(<<"unknown operator: ", operator, right.t>>)

\* The operands of the model are small, so int64 wrap-around does not occur;
\* Go panics on an integer division by zero.
evalIntegerInfixExpression(operator, left, right) ==
    LET leftVal == left.i
        rightVal == right.i
    IN  IF operator = "+" THEN Integer(leftVal + rightVal)
        ELSE IF operator = "-" THEN Integer(leftVal - rightVal)
        ELSE IF operator = "*" THEN Integer(leftVal * rightVal)
        ELSE IF operator = "/" THEN
            IF rightVal = 0 THEN Panic
            ELSE LET q == (IF leftVal < 0 THEN 0 - leftVal ELSE leftVal)
                          \div (IF rightVal < 0 THEN 0 - rightVal ELSE rightVal)
                 IN  Integer(IF (leftVal < 0) # (rightVal < 0) THEN 0 - q ELSE q)
        ELSE IF operator = "<" THEN nativeBoolToBooleanObject(leftVal < rightVal)
        ELSE IF operator = ">" THEN nativeBoolToBooleanObject(leftVal > rightVal)
        ELSE IF operator = "==" THEN nativeBoolToBooleanObject(leftVal = rightVal)
        ELSE IF operator = "!=" THEN nativeBoolToBooleanObject(leftVal # rightVal)
        ELSE newError(<<"unknown operator: ", left.t, operator, right.t>>)

evalStringInfixExpression(operator, left, right) ==
    IF operator # "+"
    THEN newError(<<"unknown operator: ", left.t, operator, right.t>>)
    ELSE String(left.s \o right.s)

evalInfixExpression(operator, left, right) ==
    IF left.t = "INTEGER" /\ right.t = "INTEGER"
    THEN evalIntegerInfixExpression(operator, left, right)
    ELSE IF operator = "==" THEN nativeBoolToBooleanObject(SameObject(left, right))
    ELSE IF operator = "!=" THEN nativeBoolToBooleanObject(~SameObject(left, right))
    ELSE IF left.t # right.t
    THEN newError(<<"type mismatch: ", left.t, operator, right.t>>)
    ELSE IF left.t = "STRING" /\ right.t = "STRING"
    THEN evalStringInfixExpression(operator, left, right)
    ELSE newError(<<"unknown operator: ", left.t, operator, right.t>>)

\* variant: the value of a call stays wrapped
unwrapReturnValue_wrapped(obj) == obj

unwrapReturnValue(obj) == IF obj.t = "RETURN_VALUE" THEN obj.rv ELSE obj

\* variant: a read outside the array is an Error
evalArrayIndexExpression_errorOutside(elements, idx) ==
    LET max == Len(elements) - 1
    IN  IF idx < 0 \/ idx > max
        THEN newError(<<"array index out of bounds: ", ToString(idx)>>)
        ELSE elements[idx + 1]

\* evalArrayIndexExpression: indices are 0-based in the program, Elements is
\* 1-based here
evalArrayIndexExpression(elements, idx) ==
    LET max == Len(elements) - 1
    IN  IF idx < 0 \/ idx > max THEN NULL ELSE elements[idx + 1]

---------------------------------------------------------------------------
(* Tables *)

\* rowIndex -2 selects every row; an invalid index selects nothing
selectRows(rows, rowIndex) ==
    IF rowIndex = -2 THEN rows
    ELSE IF rowIndex >= Len(rows) \/ rowIndex < 0 THEN <<>>
    ELSE <<rows[rowIndex + 1]>>

\* variant: a cell that is not an integer is compared as 0
evaluateNumericCondition_unparsedIsZero(columnValue, operator, compareValue) ==
    LET p == ParseInt(columnValue)
        rowVal == IF p.ok THEN p.n ELSE 0
    IN  IF operator = ">" THEN rowVal > compareValue
        ELSE IF operator = "<" THEN rowVal < compareValue
        ELSE IF operator = ">=" THEN rowVal >= compareValue
        ELSE IF operator = "<=" THEN rowVal <= compareValue
        ELSE IF operator = "==" THEN rowVal = compareValue
        ELSE IF operator = "!=" THEN rowVal # compareValue
        ELSE FALSE

evaluateNumericCondition(columnValue, operator, compareValue) ==
    LET p == ParseInt(columnValue)
        rowVal == p.n
    IN  IF ~p.ok THEN FALSE
        ELSE IF operator = ">" THEN rowVal > compareValue
        ELSE IF operator = "<" THEN rowVal < compareValue
        ELSE IF operator = ">=" THEN rowVal >= compareValue
        ELSE IF operator = "<=" THEN rowVal <= compareValue
        ELSE IF operator = "==" THEN rowVal = compareValue
        ELSE IF operator = "!=" THEN rowVal # compareValue
        ELSE FALSE

\* Go compares strings byte-wise; the model orders a character by its place
\* in CharOrder
CharOrder == <<"+", "-", "0", "1", "2", "3", "4", "5", "6", "7", "8", "9",
               "A", "B", "a", "e", "g", "j", "m", "n", "x", "z", "|">>

CharRank(c) == CHOOSE j \in 1..Len(CharOrder) : CharOrder[j] = c

RECURSIVE StrLess(_, _)
StrLess(a, b) ==
    IF b = <<>> THEN FALSE
    ELSE IF a = <<>> THEN TRUE
    ELSE IF Head(a) = Head(b) THEN StrLess(Tail(a), Tail(b))
    ELSE CharRank(Head(a)) < CharRank(Head(b))

evaluateStringCondition(columnValue, operator, compareValue) ==
    IF operator = "==" THEN columnValue = compareValue
    ELSE IF operator = "!=" THEN columnValue # compareValue
    ELSE IF operator = ">" THEN StrLess(compareValue, columnValue)
    ELSE IF operator = "<" THEN StrLess(columnValue, compareValue)
    ELSE IF operator = ">=" THEN ~StrLess(columnValue, compareValue)
    ELSE IF operator = "<=" THEN ~StrLess(compareValue, columnValue)
    ELSE FALSE

\* strconv.ParseBool
ParseBool(s) ==
    IF s \in {<<"1">>, <<"t">>, <<"T">>, <<"t","r","u","e">>,
              <<"T","R","U","E">>, <<"T","r","u","e">>}
    THEN [ok |-> TRUE, b |-> TRUE]
    ELSE IF s \in {<<"0">>, <<"f">>, <<"F">>, <<"f","a","l","s","e">>,
                   <<"F","A","L","S","E">>, <<"F","a","l","s","e">>}
    THEN [ok |-> TRUE, b |-> FALSE]
    ELSE [ok |-> FALSE, b |-> FALSE]

evaluateBooleanCondition(columnValue, operator, compareValue) ==
    LET p == ParseBool(columnValue)
    IN  IF ~p.ok THEN FALSE
        ELSE IF operator = "==" THEN p.b = compareValue
        ELSE IF operator = "!=" THEN p.b # compareValue
        ELSE FALSE

\* evaluateCondition, given the value the filter's expression evaluated to
evaluateCondition(row, where, compareValue) ==
    LET columnValue == Cell(row, where.columnName)
    IN  IF isError(compareValue) THEN FALSE
        ELSE IF compareValue.t = "INTEGER"
        THEN evaluateNumericCondition(columnValue, where.operator, compareValue.i)
        ELSE IF compareValue.t = "STRING"
        THEN evaluateStringCondition(columnValue, where.operator, compareValue.s)
        ELSE IF compareValue.t = "BOOLEAN"
        THEN evaluateBooleanCondition(columnValue, where.operator, compareValue.b)
        ELSE FALSE

\* variant: every cell is taken as a String
extractColumns_allStrings(rows, column) ==
    [j \in 1..Len(rows) |-> String(Cell(rows[j], column))]

RECURSIVE extractColumns(_, _)
extractColumns(rows, column) ==
    IF rows = <<>> THEN <<>>
    ELSE LET row == Head(rows)
             rest == extractColumns(Tail(rows), column)
         IN  IF column \in DOMAIN row
             THEN LET p == ParseInt(row[column])
                  IN  <<IF p.ok THEN Integer(p.n) ELSE String(row[column])>> \o rest
             ELSE rest

\* CSV.InferColumnTypes: nothing is inferred for a table without rows
InferColumnTypes(headers, rows) ==
    IF Len(rows) = 0 THEN <<>>
    ELSE [j \in 1..Len(headers) |->
            [name |-> headers[j],
             dataType |-> IF ParseInt(Cell(rows[1], headers[j])).ok
                          THEN "INTEGER" ELSE "STRING"]]

\* the row map evalLoadStatement builds from one record: a later column of
\* the same header overwrites an earlier one
RecordToRow(headers, record) ==
    [h \in Range(headers) |->
        record[CHOOSE j \in 1..Len(headers) :
                  /\ headers[j] = h
                  /\ \A j2 \in 1..Len(headers) : headers[j2] = h => j2 <= j]]

\* the key removeDuplicates gives a row
RowKey(headers, row) ==
    Join([j \in 1..Len(headers) |-> Cell(row, headers[j])], <<"|">>)

RECURSIVE uniqueRowsFrom(_, _, _)
uniqueRowsFrom(headers, rows, seen) ==
    IF rows = <<>> THEN <<>>
    ELSE LET rowKey == RowKey(headers, Head(rows))
         IN  IF rowKey \notin seen
             THEN <<Head(rows)>> \o uniqueRowsFrom(headers, Tail(rows), seen \cup {rowKey})
             ELSE uniqueRowsFrom(headers, Tail(rows), seen)

removeDuplicates(csv) ==
    CSV(csv.headers, csv.ctypes, uniqueRowsFrom(csv.headers, csv.rows, {}))

\* convertToString is handed the string Inspect returned: the string case
convertToString(value) == value

\* variant: the empty cells of every column are filled
fillEmptyRows_anyColumn(csv, fieldName, fieldValue) ==
    [j \in 1..Len(csv.rows) |->
        [h \in Range(csv.headers) |->
            IF Cell(csv.rows[j], h) = <<>>
            THEN fieldValue
            ELSE Cell(csv.rows[j], h)]]

\* the rows fill_empty builds: a fresh map per row
fillEmptyRows(csv, fieldName, fieldValue) ==
    [j \in 1..Len(csv.rows) |->
        [h \in Range(csv.headers) |->
            IF h = fieldName /\ Cell(csv.rows[j], h) = <<>>
            THEN fieldValue
            ELSE Cell(csv.rows[j], h)]]

\* the record saveAsCSV writes for a row
RowToRecord(headers, row) == [j \in 1..Len(headers) |-> Cell(row, headers[j])]

saveAsCSV(csvData, filename, fs) ==
    [fs EXCEPT ![filename] =
        [kind |-> "csv", headers |-> csvData.headers,
         records |-> [j \in 1..Len(csvData.rows) |->
                        RowToRecord(csvData.headers, csvData.rows[j])]]]

saveAsJSON(csvData, filename, fs) ==
    [fs EXCEPT ![filename] =
        [kind |-> "json", headers |-> csvData.headers, rows |-> csvData.rows]]

---------------------------------------------------------------------------
(* Inspect and the built-in functions *)

\* Object.Inspect for the values that can be rendered as text
RECURSIVE Inspect(_, _)
Inspect(obj, as) ==
    IF obj.t = "INTEGER" THEN IntToStr(obj.i)
    ELSE IF obj.t = "STRING" THEN obj.s
    ELSE IF obj.t = "BOOLEAN"
    THEN (IF obj.b THEN <<"t","r","u","e">> ELSE <<"f","a","l","s","e">>)
    ELSE IF obj.t = "NULL" THEN <<"n","u","l","l">>
    ELSE IF obj.t = "ARRAY"
    THEN <<"[">> \o Join([j \in 1..Len(as[obj.a]) |-> Inspect(as[obj.a][j], as)],
                         <<",", " ">>) \o <<"]">>
    ELSE <<obj.t>>

BuiltinNames == {"len", "count", "unique", "fill_empty", "push", "pop"}

\* builtins: len
builtinLen(args, st) ==
    IF Len(args) # 1
    THEN newError(<<"wrong number of arguments. got=", ToString(Len(args)), ", want=1">>)
    ELSE IF args[1].t = "ARRAY" THEN Integer(Len(st.arrs[args[1].a]))
    ELSE IF args[1].t = "STRING" THEN Integer(Len(args[1].s))
    ELSE newError(<<"argument to len not supported, got ", args[1].t>>)

\* builtins: count
builtinCount(args, st) ==
    IF Len(args) # 1
    THEN newError(<<"wrong number of arguments: got=", ToString(Len(args)), ", want=1">>)
    ELSE IF args[1].t = "ARRAY" THEN Integer(Len(st.arrs[args[1].a]))
    ELSE IF args[1].t = "CSV" THEN Integer(st.tbls[args[1].ref].rows.len)
    ELSE newError(<<"argument must be ARRAY or CSV, got ", args[1].t>>)

\* variant: the new table is returned and bound to nothing
builtinFillEmpty_noBinding(e, args, st) ==
    IF Len(args) # 3
    THEN R(newError(<<"wrong number of arguments: got=", ToString(Len(args)), ", want=3">>), st)
    ELSE IF args[1].t # "CSV"
    THEN R(newError(<<"argument must be CSV, got ", args[1].t>>), st)
    ELSE LET csv == CSVAt(st.tbls, st.rowArrs, args[1])
             fieldValue == convertToString(Inspect(args[3], st.arrs))
             fieldName == Inspect(args[2], st.arrs)
             rows == newRows(st, fillEmptyRows(csv, fieldName, fieldValue))
             modifiedCSV == newCSV(rows.st, csv.headers, csv.ctypes, rows.slice)
         IN  R(modifiedCSV.v, modifiedCSV.st)

\* builtins: fill_empty: the new table is also bound to `csv` in the
\* environment of the call
builtinFillEmpty(e, args, st) ==
    IF Len(args) # 3
    THEN R(newError(<<"wrong number of arguments: got=", ToString(Len(args)), ", want=3">>), st)
    ELSE IF args[1].t # "CSV"
    THEN R(newError(<<"argument must be CSV, got ", args[1].t>>), st)
    ELSE LET csv == CSVAt(st.tbls, st.rowArrs, args[1])
             fieldValue == convertToString(Inspect(args[3], st.arrs))
             fieldName == Inspect(args[2], st.arrs)
             rows == newRows(st, fillEmptyRows(csv, fieldName, fieldValue))
             modifiedCSV == newCSV(rows.st, csv.headers, csv.ctypes, rows.slice)
         IN  R(modifiedCSV.v,
               [modifiedCSV.st EXCEPT !.envs = EnvSet(@, e, "csv", modifiedCSV.v)])

\* ToCSV returns a table and a nil error, or an error; or it panics
Converted(csv) == [k |-> "csv", csv |-> csv, msg |-> <<>>]
NotConverted(msg) == [k |-> "err", csv |-> CSV(<<>>, <<>>, <<>>), msg |-> msg]
ConversionPanics == [k |-> "panic", csv |-> CSV(<<>>, <<>>, <<>>), msg |-> <<>>]

\* `env.Get("csv")` and `csvObj.(*CSV)` in the ToCSV methods: the table bound
\* to csv in the environment of the call or one around it
currentOf(g, st) ==
    [bound |-> g.ok,
     isCSV |-> g.ok /\ g.val.t = "CSV",
     csv |-> IF g.ok /\ g.val.t = "CSV"
             THEN CSVAt(st.tbls, st.rowArrs, g.val)
             ELSE CSV(<<>>, <<>>, <<>>)]
currentCSV(e, st) == currentOf(EnvGet(st.envs, e, "csv"), st)

ColumnType(name, dataType) == [name |-> name, dataType |-> dataType]

\* the generated headers col1, col2, ...
GeneratedHeaders(n) == [j \in 1..n |-> <<"c", "o", "l">> \o IntToStr(j)]

\* Integer.ToCSV, String.ToCSV and Boolean.ToCSV: one column, named after
\* the first header of the current table when there is one, one row.
\* ColumnTypes[0] panics when the current table has headers and no types.
scalarToCSVIn(obj, cur, st) ==
    LET fromCurrent == cur.bound /\ Len(cur.csv.headers) > 0
        currentHeader == IF fromCurrent THEN cur.csv.headers[1] ELSE <<>>
        header == IF currentHeader = <<>> THEN GeneratedHeaders(1)[1]
                  ELSE currentHeader
        columnType == IF currentHeader = <<>> THEN ColumnType(<<>>, obj.t)
                      ELSE cur.csv.ctypes[1]
    IN  IF cur.bound /\ ~cur.isCSV THEN ConversionPanics
        ELSE IF fromCurrent /\ cur.csv.ctypes = <<>> THEN ConversionPanics
        ELSE IF /\ fromCurrent
                /\ obj.t # "STRING"
                /\ cur.csv.ctypes[1].dataType \notin {obj.t, "STRING"}
        THEN NotConverted(<<"type mismatch: cannot convert ", obj.t, " to ",
                            cur.csv.ctypes[1].dataType>>)
        ELSE Converted(CSV(<<header>>, <<columnType>>,
                           <<(header :> Inspect(obj, st.arrs))>>))

scalarToCSV(obj, e, st) == scalarToCSVIn(obj, currentCSV(e, st), st)

InferType(obj) ==
    IF obj.t \in {"INTEGER", "STRING", "BOOLEAN"} THEN ColumnType(<<>>, obj.t)
    ELSE ColumnType(<<>>, "STRING")

isCompatibleType(value, colType) ==
    IF colType.dataType \in {"INTEGER", "STRING", "BOOLEAN"}
    THEN value.t = colType.dataType
    ELSE TRUE

\* oneDArrayToCSV: one row; bound says that there are existing headers
Least(S) == CHOOSE j \in S : \A j2 \in S : j <= j2

\* oneDArrayToCSV, the loop over the elements: the first element whose type
\* does not fit stops it when validate is set
oneDRow(elements, headers, columnTypes, validate, mismatches, st) ==
    IF validate /\ mismatches # {}
    THEN NotConverted(<<"type mismatch in column ", headers[Least(mismatches)],
                        ": expected ", columnTypes[Least(mismatches)].dataType,
                        ", got ", elements[Least(mismatches)].t>>)
    ELSE Converted(CSV(headers, columnTypes,
             <<RecordToRow(headers,
                   [j \in 1..Len(elements) |-> Inspect(elements[j], st.arrs)])>>))

oneDArrayToCSV(elements, bound, existingHeaders, existingTypes, st) ==
    IF bound /\ Len(elements) # Len(existingHeaders)
    THEN NotConverted(<<"array length ", ToString(Len(elements)),
                        " does not match expected column count ",
                        ToString(Len(existingHeaders))>>)
    ELSE IF bound
    THEN oneDRow(elements, existingHeaders, existingTypes, existingTypes # <<>>,
                 {j \in 1..Len(elements) :
                     /\ existingTypes # <<>>
                     /\ ~isCompatibleType(elements[j], existingTypes[j])}, st)
    ELSE oneDRow(elements, GeneratedHeaders(Len(elements)),
                 [j \in 1..Len(elements) |-> InferType(elements[j])],
                 FALSE, {}, st)

\* twoDArrayToCSV: one row per element.  Without existing types the types
\* are inferred from the first row into columnTypes, which is the nil slice,
\* written out of range, when there are existing headers.
FirstCell(S) ==
    CHOOSE ij \in S :
        \A kl \in S : ij[1] < kl[1] \/ (ij[1] = kl[1] /\ ij[2] <= kl[2])

\* twoDArrayToCSV, the loop over the rows (the element arrays) and their
\* cells: the cells of the rows in validated are checked against columnTypes
twoDRows(rows, headers, columnTypes, mismatch, st) ==
    IF mismatch # <<>>
    THEN NotConverted(<<"type mismatch in row ", ToString(mismatch[1] - 1),
                        ", column ", headers[mismatch[2]],
                        ": expected ", columnTypes[mismatch[2]].dataType,
                        ", got ", rows[mismatch[1]][mismatch[2]].t>>)
    ELSE Converted(CSV(headers, columnTypes,
             [i \in 1..Len(rows) |->
                 RecordToRow(headers,
                     [j \in 1..Len(rows[1]) |-> Inspect(rows[i][j], st.arrs)])]))

\* the first cell, rows in validated only, whose type does not fit; <<>>
\* when all fit
firstMismatch(mismatches) ==
    IF mismatches = {} THEN <<>> ELSE FirstCell(mismatches)

twoDTyped(rows, headers, columnTypes, validated, st) ==
    twoDRows(rows, headers, columnTypes,
             firstMismatch({ij \in validated \X (1..Len(rows[1])) :
                 ~isCompatibleType(rows[ij[1]][ij[2]], columnTypes[ij[2]])}), st)

twoDOf(rows, bound, existingHeaders, existingTypes, st) ==
    IF bound /\ Len(rows[1]) # Len(existingHeaders)
    THEN NotConverted(<<"row length ", ToString(Len(rows[1])),
                        " does not match expected column count ",
                        ToString(Len(existingHeaders))>>)
    ELSE IF bound /\ existingTypes = <<>> /\ Len(rows[1]) > 0
    THEN ConversionPanics
    ELSE IF bound
    THEN twoDTyped(rows, existingHeaders, existingTypes, 1..Len(rows), st)
    ELSE twoDTyped(rows, GeneratedHeaders(Len(rows[1])),
                   [j \in 1..Len(rows[1]) |-> InferType(rows[1][j])],
                   2..Len(rows), st)

twoDArrayToCSV(elements, bound, existingHeaders, existingTypes, st) ==
    twoDOf([i \in 1..Len(elements) |-> st.arrs[elements[i].a]],
           bound, existingHeaders, existingTypes, st)

\* ArrayToCSV: the headers and types of the current table when there is one
ArrayToCSVIn(elements, cur, st) ==
    IF cur.bound /\ ~cur.isCSV THEN ConversionPanics
    ELSE IF Len(elements) = 0
    THEN Converted(CSV(cur.csv.headers, cur.csv.ctypes, <<>>))
    ELSE IF elements[1].t = "ARRAY"
    THEN IF \E j \in 1..Len(elements) :
                \/ elements[j].t # "ARRAY"
                \/ Len(st.arrs[elements[j].a]) # Len(st.arrs[elements[1].a])
         THEN NotConverted(<<"inconsistent row lengths in 2D array">>)
         ELSE twoDArrayToCSV(elements, cur.bound, cur.csv.headers,
                             cur.csv.ctypes, st)
    ELSE oneDArrayToCSV(elements, cur.bound, cur.csv.headers,
                        cur.csv.ctypes, st)
ArrayToCSV(elements, e, st) == ArrayToCSVIn(elements, currentCSV(e, st), st)

\* Object.ToCSV, by the type of the object
ToCSV(obj, e, st) ==
    IF obj.t = "CSV" THEN Converted(CSVAt(st.tbls, st.rowArrs, obj))
    ELSE IF obj.t = "ARRAY" THEN ArrayToCSV(st.arrs[obj.a], e, st)
    ELSE IF obj.t \in {"INTEGER", "STRING", "BOOLEAN"} THEN scalarToCSV(obj, e, st)
    ELSE IF obj.t = "NULL" THEN NotConverted(<<"cannot convert null to CSV">>)
    ELSE IF obj.t = "FUNCTION" THEN NotConverted(<<"cannot convert function to CSV">>)
    ELSE IF obj.t = "BUILTIN"
    THEN NotConverted(<<"cannot convert builtin function to CSV">>)
    ELSE NotConverted(<<"cannot convert return value to CSV">>)

isCompatibleColumnType(target, source) ==
    IF target.dataType = "STRING" THEN TRUE
    ELSE target.dataType = source.dataType

\* variant: the rows are appended to the target's slice, in place where its
\* backing array has room
mergedRows_append(st, slice, rows, more) ==
    IF slice.arr # 0 /\ slice.off + slice.len + Len(more) <= Len(st.rowArrs[slice.arr])
    THEN [slice |-> Slice(slice.arr, slice.off, slice.len + Len(more)),
          st |-> [st EXCEPT !.rowArrs[slice.arr] =
                     [j \in 1..Len(@) |->
                         IF j > slice.off + slice.len
                            /\ j <= slice.off + slice.len + Len(more)
                         THEN more[j - slice.off - slice.len]
                         ELSE @[j]]]]
    ELSE newRows(st, rows \o more)

\* mergeCSVs: the rows of the result, a slice made for them that the rows of
\* the target (held by slice) and of the source are copied into
mergedRows(st, slice, rows, more) == newRows(st, rows \o more)

\* mergeCSVs: source.ColumnTypes[i] is out of range when the source has fewer
\* column types than the target
mergeChecked(target, source, unmerged, merged, st) ==
    IF Len(source.headers) # Len(target.headers)
    THEN R(newError(<<"column count mismatch: expected ",
                      ToString(Len(target.headers)), ", got ",
                      ToString(Len(source.headers))>>), st)
    ELSE IF unmerged # {}
    THEN IF Least(unmerged) > Len(source.ctypes) THEN R(Panic, st)
         ELSE R(newError(<<"incompatible column types for column ",
                           target.headers[Least(unmerged)]>>), st)
    ELSE newCSV(merged.st, target.headers, target.ctypes, merged.slice)

mergeCSVs(target, slice, source, st) ==
    mergeChecked(target, source,
                 {i \in 1..Len(target.ctypes) :
                     \/ i > Len(source.ctypes)
                     \/ ~isCompatibleColumnType(target.ctypes[i], source.ctypes[i])},
                 mergedRows(st, slice, target.rows, source.rows), st)

newArray(st, elements) ==
    R(Array(Len(st.arrs) + 1), [st EXCEPT !.arrs = Append(@, elements)])

\* a nil *object.CSV returned as an object.Object
NilCSV == [t |-> "nil *object.CSV"]

\* removeDuplicatesFrom2dArray, the key of a row: `key` has one entry per
\* ROW of the array, of which the row's cells fill the first ones
arrayRowKey(cells, keyLen) ==
    Join([j \in 1..keyLen |-> IF j <= Len(cells) THEN cells[j] ELSE <<>>], <<"|">>)

\* removeDuplicatesFrom2dArray, the loop over the rows
RECURSIVE uniqueArrayRowsFrom(_, _, _, _)
uniqueArrayRowsFrom(headers, rows, keyLen, seen) ==
    IF rows = <<>> THEN <<>>
    ELSE IF arrayRowKey(Head(rows), keyLen) \notin seen
    THEN <<RecordToRow(headers, Head(rows))>>
         \o uniqueArrayRowsFrom(headers, Tail(rows), keyLen,
                                seen \cup {arrayRowKey(Head(rows), keyLen)})
    ELSE uniqueArrayRowsFrom(headers, Tail(rows), keyLen, seen)

\* a new table over rows just made
newCSVOver(headers, ctypes, made) ==
    newCSV(made.st, headers, ctypes, made.slice)

\* the table removeDuplicatesFrom2dArray returns: the rows, as texts, whose
\* key was not seen before
uniqueTable(headers, ctypes, texts, st) ==
    newCSVOver(headers, ctypes,
               newRows(st, uniqueArrayRowsFrom(headers, texts, Len(texts), {})))

\* removeDuplicatesFrom2dArray past the empty array and the first row's
\* type test; cur is the binding of csv.  key[i] is out of range in the
\* first row when a row has more cells than the array has rows.
uniqueOf2dArray(elements, rowLength, cur, st) ==
    IF cur.ok /\ cur.val.t # "CSV" THEN R(Panic, st)
    ELSE IF cur.ok /\ Len(st.tbls[cur.val.ref].headers) # rowLength THEN R(NilCSV, st)
    ELSE IF rowLength > Len(elements) THEN R(Panic, st)
    ELSE IF \E i \in 1..Len(elements) :
                \/ elements[i].t # "ARRAY"
                \/ Len(st.arrs[elements[i].a]) # rowLength
    THEN R(NilCSV, st)
    ELSE uniqueTable(
             IF cur.ok THEN st.tbls[cur.val.ref].headers
             ELSE GeneratedHeaders(rowLength),
             IF cur.ok THEN st.tbls[cur.val.ref].ctypes
             ELSE [j \in 1..rowLength |-> InferType(st.arrs[elements[1].a][j])],
             [i \in 1..Len(elements) |->
                 [j \in 1..rowLength |-> Inspect(st.arrs[elements[i].a][j], st.arrs)]],
             st)

removeDuplicatesFrom2dArray(elements, e, st) ==
    IF Len(elements) = 0 THEN newCSV(st, <<>>, <<>>, Slice(0, 0, 0))
    ELSE IF elements[1].t # "ARRAY" THEN R(NilCSV, st)
    ELSE uniqueOf2dArray(elements, Len(st.arrs[elements[1].a]),
                         EnvGet(st.envs, e, "csv"), st)

\* builtins: unique
builtinUnique(e, args, st) ==
    IF Len(args) # 1
    THEN R(newError(<<"wrong number of arguments: got=", ToString(Len(args)), ", want=1">>), st)
    ELSE IF args[1].t = "CSV"
    THEN LET unique == removeDuplicates(CSVAt(st.tbls, st.rowArrs, args[1]))
             uniqueRows == appendedRows(st, unique.rows)
         IN  newCSV(uniqueRows.st, unique.headers, unique.ctypes, uniqueRows.slice)
    ELSE IF args[1].t = "ARRAY"
    THEN removeDuplicatesFrom2dArray(st.arrs[args[1].a], e, st)
    ELSE R(Nil, st)

\* push onto a table: the converted second argument is merged into it
pushConverted(csv, toAdd, st) ==
    IF toAdd.k = "panic" THEN R(Panic, st)
    ELSE IF toAdd.k = "err" THEN R(newError(toAdd.msg), st)
    ELSE mergeCSVs(CSVAt(st.tbls, st.rowArrs, csv), st.tbls[csv.ref].rows,
                   toAdd.csv, st)

\* push of a table onto an array: the table is merged into the converted
\* array, a table the conversion made
pushOntoConverted(csv, source, st) ==
    LET made == newRows(st, csv.csv.rows)
    IN  IF csv.k = "panic" THEN R(Panic, st)
        ELSE IF csv.k = "err" THEN R(newError(csv.msg), st)
        ELSE mergeCSVs(csv.csv, made.slice,
                       CSVAt(st.tbls, st.rowArrs, source), made.st)

\* builtins: push
builtinPush(e, args, st) ==
    IF Len(args) # 2 THEN R(newError(<<"wrong number of arguments">>), st)
    ELSE IF args[1].t = "CSV"
    THEN pushConverted(args[1], ToCSV(args[2], e, st), st)
    ELSE IF args[2].t = "CSV"
    THEN IF args[1].t # "ARRAY"
         THEN R(newError(<<"first argument must be ARRAY or CSV when pushing CSV">>), st)
         ELSE pushOntoConverted(ArrayToCSV(st.arrs[args[1].a], e, st), args[2], st)
    ELSE IF args[1].t # "ARRAY"
    THEN R(newError(<<"first argument must be ARRAY">>), st)
    ELSE LET elements == st.arrs[args[1].a]
         IN  IF Len(elements) = 0 THEN newArray(st, <<args[2]>>)
             ELSE IF elements[1].t = "ARRAY"
             THEN IF args[2].t = "ARRAY"
                  THEN IF Len(st.arrs[args[2].a]) # Len(st.arrs[elements[1].a])
                       THEN R(newError(<<"cannot push array of length ",
                                         ToString(Len(st.arrs[args[2].a])),
                                         " to 2D array with row length ",
                                         ToString(Len(st.arrs[elements[1].a]))>>), st)
                       ELSE newArray(st, Append(elements, args[2]))
                  ELSE R(newError(<<"cannot push non-array value to 2D array">>), st)
             ELSE newArray(st, Append(elements, args[2]))

\* builtins: pop.  The table popped from and the result share the backing
\* array of the rows: the result's slice is one row shorter.
builtinPop(args, st) ==
    IF Len(args) # 1 THEN R(newError(<<"wrong number of arguments">>), st)
    ELSE IF args[1].t = "CSV"
    THEN LET csv == st.tbls[args[1].ref]
         IN  IF csv.rows.len = 0 THEN R(newError(<<"cannot pop from empty CSV">>), st)
             ELSE newCSV(st, csv.headers, csv.ctypes,
                         Slice(csv.rows.arr, csv.rows.off, csv.rows.len - 1))
    ELSE IF args[1].t # "ARRAY"
    THEN R(newError(<<"argument must be ARRAY or CSV">>), st)
    ELSE LET elements == st.arrs[args[1].a]
         IN  IF Len(elements) = 0
             THEN R(newError(<<"cannot pop from empty array">>), st)
             ELSE newArray(st, SubSeq(elements, 1, Len(elements) - 1))

applyBuiltin(name, e, args, st) ==
    IF name = "len" THEN R(builtinLen(args, st), st)
    ELSE IF name = "count" THEN R(builtinCount(args, st), st)
    ELSE IF name = "unique" THEN builtinUnique(e, args, st)
    ELSE IF name = "push" THEN builtinPush(e, args, st)
    ELSE IF name = "pop" THEN builtinPop(args, st)
    ELSE builtinFillEmpty(e, args, st)

---------------------------------------------------------------------------
(* Eval: evaluator.go.  Eval(node, e, st) evaluates node in environment e  *)
(* and returns R(value, state).                                            *)

RECURSIVE Eval(_, _, _)
RECURSIVE evalNode(_, _, _)
RECURSIVE evalExpressionsFrom(_, _, _, _)
RECURSIVE evalBlockStatementFrom(_, _, _, _, _)
RECURSIVE evalBlockStatementFrom_noReturnTest(_, _, _, _, _)
RECURSIVE forLoopFrom(_, _, _, _, _, _)

\* evalExpressions: left to right; the first Error replaces the whole list
evalExpressionsFrom(exps, e, st, acc) ==
    IF exps = <<>> THEN [vs |-> acc, st |-> st]
    ELSE LET r == Eval(Head(exps), e, st)
         IN  IF isError(r.v) THEN [vs |-> <<r.v>>, st |-> r.st]
             ELSE evalExpressionsFrom(Tail(exps), e, r.st, Append(acc, r.v))

evalExpressions(exps, e, st) == evalExpressionsFrom(exps, e, st, <<>>)

\* evalBlockStatement without the RETURN_VALUE_OBJ test: a block goes on after
\* a return
evalBlockStatementFrom_noReturnTest(stmts, j, e, st, last) ==
    IF j > Len(stmts) THEN R(last, st)
    ELSE LET r == Eval(stmts[j], e, st)
         IN  IF r.v.t = "ERROR" THEN r
             ELSE evalBlockStatementFrom_noReturnTest(stmts, j + 1, e, r.st, r.v)

\* the loop of evalBlockStatement from statement j on; last is the value of
\* the statement before it
evalBlockStatementFrom(stmts, j, e, st, last) ==
    IF j > Len(stmts) THEN R(last, st)
    ELSE LET r == Eval(stmts[j], e, st)
         IN  IF r.v.t \in {"RETURN_VALUE", "ERROR"} THEN r
             ELSE evalBlockStatementFrom(stmts, j + 1, e, r.st, r.v)

evalBlockStatement(block, e, st) ==
    evalBlockStatementFrom(block.stmts, 1, e, st, Nil)

evalIdentifier(node, e, st) ==
    LET g == EnvGet(st.envs, e, node.name)
    IN  IF g.ok THEN g.val
        ELSE IF node.name \in BuiltinNames THEN Builtin(node.name)
        ELSE newError(<<"identifier not found: ", node.name>>)

evalIfExpression(ie, e, st) ==
    LET c == Eval(ie.cond, e, st)
    IN  IF isError(c.v) THEN c
        ELSE IF isTruthy(c.v) THEN Eval(ie.cons, e, c.st)
        ELSE IF ie.alt # NoNode THEN Eval(ie.alt, e, c.st)
        ELSE R(NULL, c.st)

\* extendFunctionEnv: args[paramIdx] panics when there are fewer arguments
\* than parameters
extendFunctionEnv(fn, args, es) ==
    LET fresh == NewEnclosedEnvironment(es, fn.env)
        id == Len(fresh)
    IN  [fresh EXCEPT ![id].store =
            [n \in Range(fn.params) |->
                args[CHOOSE j \in 1..Len(fn.params) :
                        /\ fn.params[j] = n
                        /\ \A j2 \in 1..Len(fn.params) :
                              fn.params[j2] = n => j2 <= j]]]

\* variant: the body runs in a frame that encloses the environment of the call
applyFunction_callSiteEnv(fn, args, e, st) ==
    IF fn.t = "FUNCTION"
    THEN IF Len(args) < Len(fn.params) THEN R(Panic, st)
         ELSE LET es == extendFunctionEnv([fn EXCEPT !.env = e], args, st.envs)
                  extendedEnv == Len(es)
                  evaluated == Eval(fn.body, extendedEnv,
                                    PushCtx([st EXCEPT !.envs = es], "fn"))
              IN  R(unwrapReturnValue(evaluated.v), PopCtx(evaluated.st))
    ELSE IF fn.t = "BUILTIN" THEN applyBuiltin(fn.name, e, args, st)
    ELSE R(newError(<<"not a function: ", fn.t>>), st)

applyFunction(fn, args, e, st) ==
    IF fn.t = "FUNCTION"
    THEN IF Len(args) < Len(fn.params) THEN R(Panic, st)
         ELSE LET es == extendFunctionEnv(fn, args, st.envs)
                  extendedEnv == Len(es)
                  evaluated == Eval(fn.body, extendedEnv,
                                    PushCtx([st EXCEPT !.envs = es], "fn"))
              IN  R(unwrapReturnValue(evaluated.v), PopCtx(evaluated.st))
    ELSE IF fn.t = "BUILTIN" THEN applyBuiltin(fn.name, e, args, st)
    ELSE R(newError(<<"not a function: ", fn.t>>), st)

evalIndexExpression(left, index, st) ==
    IF left.t = "ARRAY" /\ index.t = "INTEGER"
    THEN evalArrayIndexExpression(st.arrs[left.a], index.i)
    ELSE newError(<<"index operator not supported: ", left.t>>)

evalIndexAssignmentExpression(node, e, st) ==
    LET array == Eval(node.left, e, st)
    IN  IF isError(array.v) THEN array
        ELSE LET index == Eval(node.index, e, array.st)
             IN  IF isError(index.v) THEN index
                 ELSE LET value == Eval(node.value, e, index.st)
                      IN  IF isError(value.v) THEN value
                          ELSE IF array.v.t # "ARRAY"
                          THEN R(newError(<<"index assignment not supported for type: ",
                                            array.v.t>>), value.st)
                          ELSE IF index.v.t # "INTEGER"
                          THEN R(newError(<<"array index must be INTEGER, got ",
                                            index.v.t>>), value.st)
                          ELSE IF index.v.i < 0
                                  \/ index.v.i >= Len(value.st.arrs[array.v.a])
                          THEN R(newError(<<"array index out of bounds: ", ToString(index.v.i)>>),
                                 value.st)
                          ELSE R(value.v,
                                 [Stored(value.st, array.v.a, index.v.i, value.v)
                                    EXCEPT !.arrs[array.v.a][index.v.i + 1] = value.v])


\* variant: nothing is copied back to the environment around the loop
copyBack_nothing(es, e, loopEnv) == es

\* the copy of the loop frame's names that are visible from env back into env
copyBack(es, e, loopEnv) ==
    LET names == {n \in DOMAIN GetStore(es, loopEnv) : EnvGet(es, e, n).ok}
    IN  [es EXCEPT ![e].store =
            [n \in (DOMAIN @) \cup names |->
                IF n \in names THEN GetStore(es, loopEnv)[n] ELSE @[n]]]

\* variant: the element variable is not written back into the array
forLoopFrom_noWriteBack(fl, e, a, i, n, st) ==
    IF i >= n THEN R(NULL, st)
    ELSE LET fresh == NewEnclosedEnvironment(st.envs, e)
             loopEnv == Len(fresh)
             bound == EnvSet(EnvSet(fresh, loopEnv, fl.indexName, Integer(i)),
                             loopEnv, fl.elementName, st.arrs[a][i + 1])
             body == Eval(fl.body, loopEnv,
                          PushCtx([st EXCEPT !.envs = bound], "for"))
             val == EnvGet(body.st.envs, loopEnv, fl.elementName)
             after == PopCtx(IterEnd(body.st, a, i, val.val))
         IN  forLoopFrom(fl, e, a, i + 1, n,
                         [after EXCEPT !.envs = copyBack(@, e, loopEnv)])

\* the iterations of evalForLoopStatement from index i on, over the n elements
\* of array a; the value of the body is dropped
forLoopFrom(fl, e, a, i, n, st) ==
    IF i >= n THEN R(NULL, st)
    ELSE LET fresh == NewEnclosedEnvironment(st.envs, e)
             loopEnv == Len(fresh)
             bound == EnvSet(EnvSet(fresh, loopEnv, fl.indexName, Integer(i)),
                             loopEnv, fl.elementName, st.arrs[a][i + 1])
             body == Eval(fl.body, loopEnv,
                          PushCtx([st EXCEPT !.envs = bound], "for"))
             val == EnvGet(body.st.envs, loopEnv, fl.elementName)
             after == PopCtx(IterEnd(body.st, a, i, val.val))
             written == IF val.ok
                        THEN [after EXCEPT !.arrs[a][i + 1] = val.val]
                        ELSE after
         IN  forLoopFrom(fl, e, a, i + 1, n,
                         [written EXCEPT !.envs = copyBack(@, e, loopEnv)])

evalForLoopStatement(fl, e, st) ==
    LET iterableObj == Eval(fl.iterable, e, st)
    IN  IF isError(iterableObj.v) THEN iterableObj
        ELSE IF iterableObj.v.t # "ARRAY"
        THEN R(newError(<<"for loop iterable must be ARRAY, got ",
                          iterableObj.v.t>>), iterableObj.st)
        ELSE forLoopFrom(fl, e, iterableObj.v.a, 0,
                         Len(iterableObj.st.arrs[iterableObj.v.a]), iterableObj.st)

\* evalLoadStatement.  A file holds a header record and data records; the
\* csv reader rejects an empty file and a record whose number of fields
\* differs from the first one's.
evalLoadStatement(ls, e, st) ==
    LET named == [st EXCEPT !.envs =
                     EnvSet(@, e, "filename", String(<<ls.filename>>))]
        file == st.files[ls.filename]
    IN  IF file = Absent
        THEN R(newError(<<"could not open file: ", ls.filename>>), named)
        ELSE IF file.kind = "csv" /\ file.headers = <<>>
        THEN R(newError(<<"could not read CSV headers: EOF">>), named)
        ELSE IF file.kind # "csv"
                \/ \E j \in 1..Len(file.records) :
                      Len(file.records[j]) # Len(file.headers)
        THEN R(newError(<<"could not read CSV records: ">>), named)
        ELSE LET rows == [j \in 1..Len(file.records) |->
                            RecordToRow(file.headers, file.records[j])]
                 made == newRows(named, rows)
                 csvObj == newCSV(made.st, file.headers,
                                  InferColumnTypes(file.headers, rows), made.slice)
             IN  R(csvObj.v, [csvObj.st EXCEPT !.envs = EnvSet(@, e, "csv", csvObj.v)])

\* filterRows: the filter's value is evaluated for every row
RECURSIVE filterRowsFrom(_, _, _, _)
filterRowsFrom(rows, where, e, st) ==
    IF rows = <<>> THEN [rows |-> <<>>, st |-> st]
    ELSE LET compareValue == Eval(where.value, e, st)
             rest == filterRowsFrom(Tail(rows), where, e, compareValue.st)
         IN  IF evaluateCondition(Head(rows), where, compareValue.v)
             THEN [rows |-> <<Head(rows)>> \o rest.rows, st |-> rest.st]
             ELSE rest

filterRows(rows, where, e, st) == filterRowsFrom(rows, where, e, st)

\* variant: the table the read yields becomes the active table
readCSV_bindsResult(st, csv, rs, rows) ==
    LET made == IF rs.filter = NoNode /\ rs.rowIndex = -2
                THEN [slice |-> csv.rows, st |-> st]
                ELSE appendedRows(st, rows)
        read == newCSV(made.st, csv.headers, csv.ctypes, made.slice)
    IN  R(read.v, [read.st EXCEPT !.envs = EnvSet(@, 1, "csv", read.v)])

\* evalReadStatement; an array result is a new array object
\* the table evalReadStatement yields: a new object with the headers and
\* column types of csv and the rows selected, in the table's own slice for
\* row * without a filter and in a fresh one otherwise
readCSV(st, csv, rs, rows) ==
    LET made == IF rs.filter = NoNode /\ rs.rowIndex = -2
                THEN [slice |-> csv.rows, st |-> st]
                ELSE appendedRows(st, rows)
    IN  newCSV(made.st, csv.headers, csv.ctypes, made.slice)

evalReadStatement(rs, e, st) ==
    LET csv == EnvGet(st.envs, e, "csv")
    IN  IF ~csv.ok THEN R(Nil, st)
        ELSE IF csv.val.t # "CSV" THEN R(Nil, st)
        ELSE LET csvObj == CSVAt(st.tbls, st.rowArrs, csv.val)
                 selected == selectRows(csvObj.rows, rs.rowIndex)
                 f == IF rs.filter # NoNode
                      THEN filterRows(selected, rs.filter, e, st)
                      ELSE [rows |-> selected, st |-> st]
             IN  IF rs.colIndex # <<>>
                 THEN R(Array(Len(f.st.arrs) + 1),
                        [f.st EXCEPT !.arrs =
                            Append(@, extractColumns(f.rows, rs.colIndex))])
                 ELSE readCSV(f.st, st.tbls[csv.val.ref], rs, f.rows)

\* variant: the source of the statement is ignored and the table bound to
\* csv is written
evalSaveStatement_activeTable(node, e, st) ==
    LET value == EnvGet(st.envs, e, "csv").val
    IN  IF ~EnvGet(st.envs, e, "csv").ok
        THEN R(newError(<<"no CSV data to save">>), st)
        ELSE IF node.format = "csv"
        THEN R(NULL, [st EXCEPT !.files =
                        saveAsCSV(CSVAt(st.tbls, st.rowArrs, value), node.filename, @)])
        ELSE R(NULL, [st EXCEPT !.files =
                        saveAsJSON(CSVAt(st.tbls, st.rowArrs, value), node.filename, @)])

\* evalSaveStatement.  (The file system of the model accepts every write.)
evalSaveStatement(node, e, st) ==
    LET value == IF node.source # ""
                 THEN evalIdentifier(Identifier(node.source), e, st)
                 ELSE EnvGet(st.envs, e, "csv").val
        write(dataToSave) ==
            IF node.format = "csv"
            THEN R(NULL, [st EXCEPT !.files = saveAsCSV(dataToSave, node.filename, @)])
            ELSE IF node.format = "json"
            THEN R(NULL, [st EXCEPT !.files = saveAsJSON(dataToSave, node.filename, @)])
            ELSE R(newError(<<"unsupported format: ", node.format>>), st)
    IN  IF node.source # ""
        THEN IF isError(value) THEN R(value, st)
             ELSE IF value.t # "CSV" THEN R(newError(<<"cannot save non-CSV data">>), st)
             ELSE write(CSVAt(st.tbls, st.rowArrs, value))
        ELSE IF ~EnvGet(st.envs, e, "csv").ok
             THEN R(newError(<<"no CSV data to save">>), st)
             ELSE IF value.t # "CSV" THEN R(Panic, st)
             ELSE write(CSVAt(st.tbls, st.rowArrs, value))

\* the type switch of Eval
evalNode(node, e, st) ==
    LET k == node.k
    IN  CASE
          k = "ExpressionStatement" -> Eval(node.expr, e, st)
       [] k = "LoadStatement" -> evalLoadStatement(node, e, st)
       [] k = "ReadStatement" -> evalReadStatement(node.re, e, st)
       [] k = "ReadExpression" -> evalReadStatement(node, e, st)
       [] k = "SaveStatement" -> evalSaveStatement(node, e, st)
       [] k = "BlockStatement" -> evalBlockStatement(node, e, st)
       [] k = "ReturnStatement" ->
            (LET val == Eval(node.value, e, st)
            IN  IF isError(val.v) THEN val ELSE R(ReturnValue(val.v), val.st))
       [] k = "LetStatement" ->
            (LET val == Eval(node.value, e, st)
            IN  IF isError(val.v) \/ val.v = Panic THEN val
                ELSE R(Nil, [val.st EXCEPT !.envs = EnvSet(@, e, node.name, val.v)]))
       [] k = "AssignmentStatement" ->
            (LET val == Eval(node.value, e, st)
            IN  IF isError(val.v) THEN val
                ELSE IF ~EnvGet(val.st.envs, e, node.name).ok
                THEN R(newError(<<"identifier not found: ", node.name>>), val.st)
                ELSE R(val.v, [val.st EXCEPT !.envs = EnvSet(@, e, node.name, val.v)]))
       [] k = "ForLoopStatement" -> evalForLoopStatement(node.fl, e, st)
       [] k = "IntegerLiteral" -> R(Integer(node.int), st)
       [] k = "StringLiteral" -> R(String(node.str), st)
       [] k = "Boolean" -> R(nativeBoolToBooleanObject(node.bool), st)
       [] k = "PrefixExpression" ->
            (LET right == Eval(node.right, e, st)
            IN  IF isError(right.v) THEN right
                ELSE R(evalPrefixExpression(node.op, right.v), right.st))
       [] k = "InfixExpression" ->
            (LET left == Eval(node.left, e, st)
            IN  IF isError(left.v) THEN left
                ELSE LET right == Eval(node.right, e, left.st)
                     IN  IF isError(right.v) THEN right
                         ELSE R(evalInfixExpression(node.op, left.v, right.v), right.st))
       [] k = "IfExpression" -> evalIfExpression(node, e, st)
       [] k = "Identifier" -> R(evalIdentifier(node, e, st), st)
       [] k = "ArrayLiteral" ->
            (LET elements == evalExpressions(node.elems, e, st)
            IN  IF Len(elements.vs) = 1 /\ isError(elements.vs[1])
                THEN R(elements.vs[1], elements.st)
                ELSE R(Array(Len(elements.st.arrs) + 1),
                       [elements.st EXCEPT !.arrs = Append(@, elements.vs)]))
       [] k = "IndexExpression" ->
            (LET left == Eval(node.left, e, st)
            IN  IF isError(left.v) THEN left
                ELSE LET index == Eval(node.index, e, left.st)
                     IN  IF isError(index.v) THEN index
                         ELSE R(evalIndexExpression(left.v, index.v, index.st), index.st))
       [] k = "FunctionLiteral" -> R(Function(node.params, node.body, e), st)
       [] k = "CallExpression" ->
            (LET function == Eval(node.fn, e, st)
            IN  IF isError(function.v) THEN function
                ELSE LET args == evalExpressions(node.args, e, function.st)
                     IN  IF Len(args.vs) = 1 /\ isError(args.vs[1])
                         THEN R(args.vs[1], args.st)
                         ELSE applyFunction(function.v, args.vs, e, args.st))
       [] k = "ForLoopExpression" -> evalForLoopStatement(node, e, st)
       [] k = "IndexAssignmentExpression" -> evalIndexAssignmentExpression(node, e, st)
       [] OTHER -> R(Nil, st)

Eval(node, e, st) ==
    LET r == evalNode(node, e, Enter(st, node))
    IN  R(r.v, Exit(r.st, node, r.v))

---------------------------------------------------------------------------
(* The machine: evalProgram *)

\* evalProgram without its *object.Error case
evalProgramResult_noErrorCase(v) ==
    IF v.t = "RETURN_VALUE" THEN [result |-> v.rv, stop |-> TRUE]
    ELSE [result |-> v, stop |-> FALSE]

\* what evalProgram does with the value of a statement: the result it keeps
\* and whether it returns at once
evalProgramResult(v) ==
    IF v.t = "RETURN_VALUE" THEN [result |-> v.rv, stop |-> TRUE]
    ELSE IF v.t = "ERROR" THEN [result |-> v, stop |-> TRUE]
    ELSE IF v = Panic THEN [result |-> v, stop |-> TRUE]
    ELSE [result |-> v, stop |-> FALSE]

\* the state Eval of a top-level statement starts from
EvalState ==
    [envs |-> envs, arrs |-> arrs, tbls |-> tbls, rowArrs |-> rowArrs,
     files |-> files, trace |-> trace, ctx |-> <<>>, top |-> pc]

\* Eval of a top-level statement has returned r: the environments, heaps and
\* files are as it left them, and its value is recorded
Evaluated(r) ==
    /\ envs' = r.st.envs
    /\ arrs' = r.st.arrs
    /\ tbls' = r.st.tbls
    /\ rowArrs' = r.st.rowArrs
    /\ files' = r.st.files
    /\ trace' = r.st.trace
    /\ log' = Append(log, r.v)

\* one iteration of evalProgram's loop: the next top-level statement, in the
\* global environment
evalProgramStep ==
    /\ ~halted
    /\ pc <= Len(prog)
    /\ Evaluated(Eval(prog[pc], 1, EvalState))
    /\ LET d == evalProgramResult(log'[Len(log')])
       IN  /\ result' = d.result
           /\ halted' = d.stop
           /\ pc' = IF d.stop THEN pc ELSE pc + 1
    /\ UNCHANGED <<lexer, tokens, script, errors, prog>>

\* the loop is over: evalProgram returns result
evalProgramReturn ==
    /\ ~halted
    /\ pc > Len(prog)
    /\ halted' = TRUE
    /\ UNCHANGED <<lexer, tokens, script, errors, prog, pc, result, envs, arrs, tbls, rowArrs,
                   files, log, trace>>

Next == evalProgramStep \/ evalProgramReturn

\* the state after object.NewEnvironment(), before the first statement
\* StartLexer has not been called: its lexer is the zero lexer.Lexer
NoLexer ==
    [input |-> <<>>, position |-> 0, readPosition |-> 0, ch |-> "",
     Line |-> 0, Column |-> 0]

InitMachine ==
    /\ lexer = NoLexer
    /\ tokens = <<>>
    /\ script = <<>>
    /\ errors = <<>>
    /\ pc = 1
    /\ result = Nil
    /\ halted = FALSE
    /\ envs = <<NewEnvironment>>
    /\ arrs = <<>>
    /\ tbls = <<>>
    /\ rowArrs = <<>>
    /\ log = <<>>
    /\ trace = <<>>

---------------------------------------------------------------------------
(* Programs and files the specifications start from *)

NAME == <<"n", "a", "m", "e">>
AGE == <<"a", "g", "e">>

FileNames == {"data.csv", "out.csv", "out.json", "all.csv"}

NoFiles == [f \in FileNames |-> Absent]

CsvFile(headers, records) ==
    [kind |-> "csv", headers |-> headers, records |-> records]

\* sequences over S of length 0..n
RECURSIVE SeqsUpTo(_, _)
SeqsUpTo(S, n) ==
    IF n = 0 THEN {<<>>}
    ELSE LET shorter == SeqsUpTo(S, n - 1)
         IN  shorter \cup {Append(q, x) : q \in {q2 \in shorter : Len(q2) = n - 1}, x \in S}

Block1(s1) == BlockStatement(<<s1>>)
Block2(s1, s2) == BlockStatement(<<s1, s2>>)
IfStmt(cond, cons, alt) == ExpressionStatement(IfExpression(cond, cons, alt))

\* Statements of the control-flow programs:
\*   let a = 1           a = 2             foo            let y = foo
\*   return 7            5                 load data.csv  save as out.csv
\*   if (true) { if (true) { return 3; let w = 8 }; let z = 9 }
\*   if (false) { return 5 } else { let b = 4 }
\*   for i, x in [1, 2] { foo; let c = 1 }
\*   for i, x in [1, 2] { if (true) { return 6 } }
ControlStatements ==
    { LetStatement("a", IntegerLiteral(1)),
      AssignmentStatement("a", IntegerLiteral(2)),
      ExpressionStatement(Identifier("foo")),
      LetStatement("y", Identifier("foo")),
      ReturnStatement(IntegerLiteral(7)),
      ExpressionStatement(IntegerLiteral(5)),
      LoadStatement("data.csv"),
      SaveStatement("", "out.csv", "csv"),
      IfStmt(BooleanLit(TRUE),
             Block2(IfStmt(BooleanLit(TRUE),
                           Block2(ReturnStatement(IntegerLiteral(3)),
                                  LetStatement("w", IntegerLiteral(8))),
                           NoNode),
                    LetStatement("z", IntegerLiteral(9))),
             NoNode),
      IfStmt(BooleanLit(FALSE),
             Block1(ReturnStatement(IntegerLiteral(5))),
             Block1(LetStatement("b", IntegerLiteral(4)))),
      ForLoopStatement(ForLoopExpression("i", "x",
          ArrayLiteral(<<IntegerLiteral(1), IntegerLiteral(2)>>),
          Block2(ExpressionStatement(Identifier("foo")),
                 LetStatement("c", IntegerLiteral(1))))),
      ForLoopStatement(ForLoopExpression("i", "x",
          ArrayLiteral(<<IntegerLiteral(1), IntegerLiteral(2)>>),
          Block1(IfStmt(BooleanLit(TRUE),
                        Block1(ReturnStatement(IntegerLiteral(6))),
                        NoNode)))) }

ControlPrograms == SeqsUpTo(ControlStatements, MaxStmts)

ControlFiles ==
    [NoFiles EXCEPT !["data.csv"] = CsvFile(<<NAME, AGE>>, <<<<<<"A">>, <<"3">>>>>>)]

Init ==
    /\ InitMachine
    /\ prog \in ControlPrograms
    /\ files = ControlFiles

Spec == Init /\ [][Next]_vars

---------------------------------------------------------------------------
(* Table programs over a file data.csv with the columns name and age *)

NameCells == {<<>>, <<"|">>}
AgeCells == {<<>>, <<"|">>, <<"3">>, <<"+", "7">>, <<"-", "3">>}

TableRecords == {<<n, a>> : n \in NameCells, a \in AgeCells}

TableFiles ==
    {[NoFiles EXCEPT !["data.csv"] = CsvFile(<<NAME, AGE>>, recs)] :
        recs \in SeqsUpTo(TableRecords, MaxRows)}

FilterOperators == {"==", "!=", "<", ">"}
FilterValues == {3, 7}

ReadAll == ReadExpression(-2, <<>>, NoNode)
Call1(fn, a1) == CallExpression(Identifier(fn), <<a1>>)
Call3(fn, a1, a2, a3) == CallExpression(Identifier(fn), <<a1, a2, a3>>)

\* load data.csv; let v = read row * where age <op> <n>;
\* save v as out.json; save as all.csv
ReadSaveProgram(op, n) ==
    << LoadStatement("data.csv"),
       LetStatement("v", ReadExpression(-2, <<>>,
           ReadFilterExpression(AGE, op, IntegerLiteral(n)))),
       SaveStatement("v", "out.json", "json"),
       SaveStatement("", "all.csv", "csv") >>

\* load data.csv; let r = read row *; let u = unique(r); save u as out.csv
UniqueProgram ==
    << LoadStatement("data.csv"),
       LetStatement("r", ReadAll),
       LetStatement("u", Call1("unique", Identifier("r"))),
       SaveStatement("u", "out.csv", "csv") >>

FillColumns == {NAME, AGE, <<"z">>}
FillValues == {IntegerLiteral(18), StringLiteral(<<"j">>), StringLiteral(<<>>)}

\* load data.csv; let r = read row *; let r2 = fill_empty(r, <c>, <v>);
\* let r3 = fill_empty(r2, <c>, <v>); save as out.csv
FillProgram(c, v) ==
    << LoadStatement("data.csv"),
       LetStatement("r", ReadAll),
       LetStatement("r2", Call3("fill_empty", Identifier("r"), StringLiteral(c), v)),
       LetStatement("r3", Call3("fill_empty", Identifier("r2"), StringLiteral(c), v)),
       SaveStatement("", "out.csv", "csv") >>

TablePrograms ==
    {ReadSaveProgram(op, n) : op \in FilterOperators, n \in FilterValues}
    \cup {UniqueProgram}
    \cup {FillProgram(c, v) : c \in FillColumns, v \in FillValues}

InitTable ==
    /\ InitMachine
    /\ prog \in TablePrograms
    /\ files \in TableFiles

SpecTable == InitTable /\ [][Next]_vars

---------------------------------------------------------------------------
(* Closure programs *)

ClosureInts == (0 - MaxInt)..MaxInt

\* the source text of an integer: a literal, or a literal under prefix minus
IntExpr(n) ==
    IF n < 0 THEN PrefixExpression("-", IntegerLiteral(0 - n)) ELSE IntegerLiteral(n)

\* let adder = fn(x) { fn(y) { x + y } }
LetAdder ==
    LetStatement("adder",
        FunctionLiteral(<<"x">>, Block1(ExpressionStatement(
            FunctionLiteral(<<"y">>, Block1(ExpressionStatement(
                InfixExpression(Identifier("x"), "+", Identifier("y")))))))))

\* let adder = ...; let x = <c>; let r = adder(<a>)(<b>)
ClosureDirect(a, b, c) ==
    << LetAdder,
       LetStatement("x", IntExpr(c)),
       LetStatement("r", CallExpression(Call1("adder", IntExpr(a)), <<IntExpr(b)>>)) >>

\* let adder = ...; let addA = adder(<a>); let caller = fn(x) { addA(<b>) };
\* let r = caller(<c>)
ClosureNested(a, b, c) ==
    << LetAdder,
       LetStatement("addA", Call1("adder", IntExpr(a))),
       LetStatement("caller",
           FunctionLiteral(<<"x">>, Block1(ExpressionStatement(Call1("addA", IntExpr(b)))))),
       LetStatement("r", Call1("caller", IntExpr(c))) >>

ClosurePrograms ==
    {ClosureDirect(a, b, c) : a \in ClosureInts, b \in ClosureInts, c \in ClosureInts}
    \cup {ClosureNested(a, b, c) : a \in ClosureInts, b \in ClosureInts, c \in ClosureInts}

InitClosure ==
    /\ InitMachine
    /\ prog \in ClosurePrograms
    /\ files = NoFiles

SpecClosure == InitClosure /\ [][Next]_vars

---------------------------------------------------------------------------
(* Loop programs: let a = [...]; let b = a; for i, x in a { body }; b[0] *)

LoopInts == 0..MaxInt

AssignX(value) == AssignmentStatement("x", value)
StoreAt(arr, index, n) ==
    ExpressionStatement(IndexAssignmentExpression(Identifier(arr), index, IntegerLiteral(n)))
IndexIs(n) == InfixExpression(Identifier("i"), "==", IntegerLiteral(n))

\* { i }
BodyReadOnly == Block1(ExpressionStatement(Identifier("i")))
\* { x = x + 1 }
BodyAssign == Block1(AssignX(InfixExpression(Identifier("x"), "+", IntegerLiteral(1))))
\* { let x = x * 2 }
BodyLet ==
    Block1(LetStatement("x", InfixExpression(Identifier("x"), "*", IntegerLiteral(2))))
\* { if (i == 0) { x = 9 } }
BodyAssignFirst ==
    Block1(IfStmt(IndexIs(0), Block1(AssignX(IntegerLiteral(9))), NoNode))
\* { a[i] = 7 }
BodyStore == Block1(StoreAt("a", Identifier("i"), 7))
\* { if (i == 1) { a[i] = 7 } }
BodyStoreSecond ==
    Block1(IfStmt(IndexIs(1), Block1(StoreAt("a", Identifier("i"), 7)), NoNode))
\* { b[i] = 7 }
BodyStoreAlias == Block1(StoreAt("b", Identifier("i"), 7))
\* { a[0] = 9 }
BodyStoreFirst == Block1(StoreAt("a", IntegerLiteral(0), 9))
\* { a[i] = 7; x = 5 }
BodyStoreAssign == Block2(StoreAt("a", Identifier("i"), 7), AssignX(IntegerLiteral(5)))

BodiesNotAssigningX ==
    {BodyReadOnly, BodyStore, BodyStoreSecond, BodyStoreAlias, BodyStoreFirst}

LoopBodies ==
    BodiesNotAssigningX \cup {BodyAssign, BodyLet, BodyAssignFirst, BodyStoreAssign}

LoopProgram(elems, body) ==
    << LetStatement("a", ArrayLiteral([j \in 1..Len(elems) |-> IntegerLiteral(elems[j])])),
       LetStatement("b", Identifier("a")),
       ForLoopStatement(ForLoopExpression("i", "x", Identifier("a"), body)),
       ExpressionStatement(IndexExpression(Identifier("b"), IntegerLiteral(0))) >>

LoopPrograms ==
    {LoopProgram(elems, body) : elems \in SeqsUpTo(LoopInts, MaxLen), body \in LoopBodies}

InitLoop ==
    /\ InitMachine
    /\ prog \in LoopPrograms
    /\ files = NoFiles

SpecLoop == InitLoop /\ [][Next]_vars

---------------------------------------------------------------------------
(* Claims about control flow, checked under Spec *)

\* C1: when a top-level statement evaluates to an Error, evalProgram returns
\* that Error at once: the Error is the value of the last statement that was
\* evaluated, it is the result, and no statement of a later top-level
\* position was entered.
C1_FirstErrorStopsProgram ==
    \A j \in 1..Len(log) :
        isError(log[j]) =>
            /\ j = Len(log)
            /\ halted
            /\ result = log[j]
            /\ pc = j
            /\ \A m \in 1..Len(trace) : trace[m].top <= j

\* C1 witness: an Error stopped a program that had run at least one
\* statement before it and had statements left
C1_Witness ==
    /\ halted
    /\ isError(result)
    /\ Len(log) >= 2
    /\ pc < Len(prog)

C9_LoopErrorPropagates ==
    \A j \in 1..Len(trace) :
        ( /\ trace[j].ev = "exit"
          /\ isError(trace[j].val)
          /\ trace[j].ctx = <<"for">> ) =>
            /\ halted
            /\ result = trace[j].val
            /\ \A m \in (j + 1)..Len(trace) : trace[m].ev # "enter"

---------------------------------------------------------------------------
(* Claims about tables, checked under SpecTable *)

\* the value bound to name in the global environment; for a table, the
\* fields of the object
Global(name) ==
    LET val == EnvGet(envs, 1, name).val
    IN  IF val.t = "CSV" THEN CSVAt(tbls, rowArrs, val) ELSE val

\* the rows of data.csv as the file gives them: one map per record
InputRows ==
    LET recs == files["data.csv"].records
    IN  [j \in 1..Len(recs) |-> (NAME :> recs[j][1]) @@ (AGE :> recs[j][2])]

\* the text s is a decimal numeral of the integer k
Denotes(s, k) == s = IntToStr(k) \/ (k >= 0 /\ s = <<"+">> \o IntToStr(k))

\* the integers the cells of the model can denote
CellIntegers == -99..99

Compare(op, k, n) ==
    IF op = "==" THEN k = n
    ELSE IF op = "!=" THEN k # n
    ELSE IF op = "<" THEN k < n
    ELSE k > n

\* the rows of InputRows whose cell in column c is an integer k with k op n
RowsWhere(c, op, n) ==
    LET Keep(row) == \E k \in CellIntegers : Denotes(row[c], k) /\ Compare(op, k, n)
    IN  SelectSeq(InputRows, Keep)

IsReadSaveProgram ==
    /\ Len(prog) = 4
    /\ prog[2].k = "LetStatement"
    /\ prog[2].value.k = "ReadExpression"
    /\ prog[2].value.filter # NoNode

\* C3: read row * where C op n, n an integer literal, yields the table of
\* exactly the rows whose cell in C is a decimal integer k with k op n, in
\* their order; a row whose cell is not an integer is left out for every
\* operator.
C3_NumericFilter ==
    (IsReadSaveProgram /\ pc > 2) =>
        LET f == prog[2].value.filter
            v == Global(prog[2].name)
        IN  /\ v.t = "CSV"
            /\ v.headers = <<NAME, AGE>>
            /\ v.rows = RowsWhere(f.columnName, f.operator, f.value.int)

\* C3 witness: a != filter has run over a table with a row whose cell is
\* not an integer, a row it keeps and a row it drops
C3_Witness ==
    /\ IsReadSaveProgram
    /\ pc > 2
    /\ prog[2].value.filter.operator = "!="
    /\ Len(Global("v").rows) = 1
    /\ Len(InputRows) = 2
    /\ \E j \in 1..2 : ~ParseInt(InputRows[j][AGE]).ok

\* what a save of table tbl in the given format leaves in the file
Written(format, tbl) ==
    IF format = "csv"
    THEN [kind |-> "csv", headers |-> tbl.headers,
          records |-> [j \in 1..Len(tbl.rows) |->
                          [c \in 1..Len(tbl.headers) |-> tbl.rows[j][tbl.headers[c]]]]]
    ELSE [kind |-> "json", headers |-> tbl.headers, rows |-> tbl.rows]

\* C4: right after a save statement, the file holds the headers and the rows,
\* in order, of the table bound to the source, or of the table bound to csv
\* when there is no source; after load; let v = read row * where ...,
\* save v writes only the filtered rows and a following save as writes every
\* loaded row.
C4_SaveWritesSource ==
    /\ ( /\ pc > 1
         /\ Len(log) = pc - 1
         /\ prog[pc - 1].k = "SaveStatement" ) =>
            LET sv == prog[pc - 1]
                tbl == Global(IF sv.source = "" THEN "csv" ELSE sv.source)
            IN  files[sv.filename] = Written(sv.format, tbl)
    /\ (IsReadSaveProgram /\ pc > 3) =>
            LET f == prog[2].value.filter
            IN  /\ files["out.json"].headers = <<NAME, AGE>>
                /\ files["out.json"].rows =
                      RowsWhere(f.columnName, f.operator, f.value.int)
    /\ (IsReadSaveProgram /\ pc > 4) =>
            /\ files["all.csv"].headers = <<NAME, AGE>>
            /\ files["all.csv"].records = files["data.csv"].records

\* C4 witness: both saves have run and the filter had dropped a row
C4_Witness ==
    /\ IsReadSaveProgram
    /\ pc > 4
    /\ Len(files["out.json"].rows) < Len(files["all.csv"].records)
    /\ Len(files["out.json"].rows) > 0

IsUniqueProgram == prog = UniqueProgram

\* the rows of q that no earlier row of q equals
RECURSIVE FirstOccurrences(_, _)
FirstOccurrences(q, earlier) ==
    IF q = <<>> THEN <<>>
    ELSE IF Head(q) \in earlier THEN FirstOccurrences(Tail(q), earlier)
    ELSE <<Head(q)>> \o FirstOccurrences(Tail(q), earlier \cup {Head(q)})

\* C5 (as claimed): unique(t) has the headers of t and exactly the rows of t
\* that no earlier row equals in every column, in their order.
C5_UniqueDropsExactDuplicates ==
    (IsUniqueProgram /\ pc > 3) =>
        /\ Global("u").t = "CSV"
        /\ Global("u").headers = <<NAME, AGE>>
        /\ Global("u").rows = FirstOccurrences(InputRows, {})

IsFillProgram ==
    /\ Len(prog) = 5
    /\ prog[3].k = "LetStatement"
    /\ prog[3].value.k = "CallExpression"
    /\ prog[3].value.fn = Identifier("fill_empty")

\* the text of the literals the fill_empty programs pass as the value
FillText(v) ==
    IF v = IntegerLiteral(18) THEN <<"1", "8">>
    ELSE v.str

\* C6: fill_empty(t, c, v) returns a table with the headers of t and the rows
\* of t, in order, in which the empty cells of column c hold v as text and
\* every other cell is as in t; t is not modified, and a second fill_empty
\* with the same c and v changes nothing.
C6_FillEmpty ==
    /\ (IsFillProgram /\ pc > 3) =>
        LET c == prog[3].value.args[2].str
            text == FillText(prog[3].value.args[3])
            r == Global("r")
            r2 == Global("r2")
        IN  /\ r2.t = "CSV"
            /\ r2.headers = <<NAME, AGE>>
            /\ Len(r2.rows) = Len(InputRows)
            /\ \A j \in 1..Len(InputRows) : \A h \in {NAME, AGE} :
                  r2.rows[j][h] = IF h = c /\ InputRows[j][h] = <<>>
                                  THEN text
                                  ELSE InputRows[j][h]
            /\ \A j \in 1..Len(InputRows) : DOMAIN r2.rows[j] = {NAME, AGE}
            /\ r.rows = InputRows
            /\ r.headers = <<NAME, AGE>>
    /\ (IsFillProgram /\ pc > 4) => Global("r3") = Global("r2")

\* C6 witness: both calls have run on a table with an empty cell in column c
\* that was filled by a text that is not empty, and a cell that was kept
C6_Witness ==
    /\ IsFillProgram
    /\ pc > 4
    /\ Len(InputRows) = 2
    /\ LET c == prog[3].value.args[2].str
       IN  /\ c \in {NAME, AGE}
           /\ InputRows[1][c] = <<>>
           /\ InputRows[2][c] # <<>>
           /\ Global("r2").rows[1][c] = <<"1", "8">>

---------------------------------------------------------------------------
(* Claims about closures, checked under SpecClosure *)

\* C7: a function resolves the free variables of its body in the environment
\* in which its fn literal was evaluated: with
\* let adder = fn(x) { fn(y) { x + y } }, adder(a)(b) is a + b whether the
\* inner function is called where a global x is bound or inside a function
\* whose own parameter is named x.
C7_LexicalScope ==
    \A a \in ClosureInts : \A b \in ClosureInts : \A c \in ClosureInts :
        /\ (prog = ClosureDirect(a, b, c) /\ pc > 3) => Global("r") = Integer(a + b)
        /\ (prog = ClosureNested(a, b, c) /\ pc > 4) => Global("r") = Integer(a + b)

\* C7 witness: the inner function was called inside caller(0) and gave 1 + 1
C7_Witness ==
    /\ prog = ClosureNested(1, 1, 0)
    /\ pc > 4
    /\ Global("r") = Integer(2)

---------------------------------------------------------------------------
(* Claims about for loops, checked under SpecLoop *)

IsLoopProgram == prog \in LoopPrograms

\* the array object bound to a
LoopArray == Global("a").a

IsIter(ev) == ev.ev = "iter"
IterEvents == SelectSeq(trace, IsIter)

\* an index assignment stored at index k of array id after iteration k ended
StoredAfterIteration(id, k) ==
    \E p \in 1..Len(trace) : \E q \in 1..Len(trace) :
        /\ p < q
        /\ trace[p].ev = "iter" /\ trace[p].node.i = k
        /\ trace[q].ev = "store" /\ trace[q].node = [k |-> "store", a |-> id, i |-> k]

\* the loop ran its iterations in index order and evaluated to NULL, and the
\* array is still the one object bound to a and to b
LoopFrame ==
    /\ log[3] = NULL
    /\ Global("b") = Global("a")
    /\ Len(IterEvents) = Len(arrs[LoopArray])
    /\ Len(arrs[LoopArray]) = Len(prog[1].value.elems)
    /\ \A k \in 1..Len(IterEvents) :
          IterEvents[k].node = [k |-> "iter", a |-> LoopArray, i |-> k - 1]
    /\ (prog[3].fl.body = BodyReadOnly) =>
          \A k \in 1..Len(arrs[LoopArray]) :
              arrs[LoopArray][k] = Integer(prog[1].value.elems[k].int)
    /\ (pc > 4 /\ Len(arrs[LoopArray]) > 0) => log[4] = arrs[LoopArray][1]

IterationsBefore(q) == Len(SelectSeq(SubSeq(trace, 1, q - 1), IsIter))

\* C10 (as claimed): when the body does not assign x, an index assignment
\* a[ind] = v made at the current index persists: after the loop a[ind] is v.
C10_IndexAssignmentPersists ==
    (IsLoopProgram /\ pc > 3 /\ prog[3].fl.body \in BodiesNotAssigningX) =>
        \A q \in 1..Len(trace) :
            ( /\ trace[q].ev = "store"
              /\ trace[q].node.a = LoopArray
              /\ trace[q].node.i = IterationsBefore(q) ) =>
                arrs[LoopArray][trace[q].node.i + 1] = trace[q].val

---------------------------------------------------------------------------
(* Scope programs: assignments, loops that assign outer names, returns in  *)
(* function bodies                                                         *)

Fn0(body) == FunctionLiteral(<<>>, body)
Call0(fn) == CallExpression(Identifier(fn), <<>>)
ExprId(name) == ExpressionStatement(Identifier(name))

\* x = <v>; let after = 1
AssignUnbound(v) ==
    << AssignmentStatement("x", IntExpr(v)),
       LetStatement("after", IntegerLiteral(1)) >>

\* let x = <u>; x = <v>; let r = x
AssignBound(u, v) ==
    << LetStatement("x", IntExpr(u)),
       AssignmentStatement("x", IntExpr(v)),
       LetStatement("r", Identifier("x")) >>

\* let x = <u>; let f = fn() { x = <v>; x }; let r = f(); let g = x
AssignEnclosing(u, v) ==
    << LetStatement("x", IntExpr(u)),
       LetStatement("f", Fn0(Block2(AssignmentStatement("x", IntExpr(v)), ExprId("x")))),
       LetStatement("r", Call0("f")),
       LetStatement("g", Identifier("x")) >>

\* let f = fn() { y = <v>; 1 }; let r = f(); let after = 1
AssignUnboundInCall(v) ==
    << LetStatement("f", Fn0(Block2(AssignmentStatement("y", IntExpr(v)),
                                    ExpressionStatement(IntegerLiteral(1))))),
       LetStatement("r", Call0("f")),
       LetStatement("after", IntegerLiteral(1)) >>

AssignPrograms ==
    {AssignUnbound(v) : v \in ClosureInts}
    \cup {AssignBound(u, v) : u \in ClosureInts, v \in ClosureInts}
    \cup {AssignEnclosing(u, v) : u \in ClosureInts, v \in ClosureInts}
    \cup {AssignUnboundInCall(v) : v \in ClosureInts}

ArrayOf(elems) == ArrayLiteral([j \in 1..Len(elems) |-> IntegerLiteral(elems[j])])

\* { s = s + x; let t = 1 }
BodySum ==
    Block2(AssignmentStatement("s", InfixExpression(Identifier("s"), "+", Identifier("x"))),
           LetStatement("t", IntegerLiteral(1)))

\* let s = 0; for i, x in [...] { s = s + x; let t = 1 }; let r = s; t
LoopSum(elems) ==
    << LetStatement("s", IntegerLiteral(0)),
       ForLoopStatement(ForLoopExpression("i", "x", ArrayOf(elems), BodySum)),
       LetStatement("r", Identifier("s")),
       ExprId("t") >>

\* let s = 0; let f = fn() { for i, x in [...] { s = s + x; let t = 1 }; s };
\* let r = f(); let g = s
LoopSumInCall(elems) ==
    << LetStatement("s", IntegerLiteral(0)),
       LetStatement("f", Fn0(Block2(
           ForLoopStatement(ForLoopExpression("i", "x", ArrayOf(elems), BodySum)),
           ExprId("s")))),
       LetStatement("r", Call0("f")),
       LetStatement("g", Identifier("s")) >>

LoopSumPrograms ==
    {LoopSum(elems) : elems \in SeqsUpTo(LoopInts, MaxLen)}
    \cup {LoopSumInCall(elems) : elems \in SeqsUpTo(LoopInts, MaxLen)}

Greater(name, n) == InfixExpression(Identifier(name), ">", IntegerLiteral(n))
Return(n) == ReturnStatement(IntegerLiteral(n))

\* fn(n) { if (n > 0) { if (n > 1) { return 20 }; return 10 }; 30 }
ReturnByDepth ==
    FunctionLiteral(<<"n">>,
        Block2(IfStmt(Greater("n", 0),
                      Block2(IfStmt(Greater("n", 1), Block1(Return(20)), NoNode),
                             Return(10)),
                      NoNode),
               ExpressionStatement(IntegerLiteral(30))))

ReturnDepths == 0..2

\* let f = <ReturnByDepth>; let g = fn(m) { f(m); 7 }; f(<k>);
\* let r = g(<k>); let after = f(<k>)
ReturnInCall(k) ==
    << LetStatement("f", ReturnByDepth),
       LetStatement("g", FunctionLiteral(<<"m">>,
           Block2(ExpressionStatement(Call1("f", Identifier("m"))),
                  ExpressionStatement(IntegerLiteral(7))))),
       ExpressionStatement(Call1("f", IntegerLiteral(k))),
       LetStatement("r", Call1("g", IntegerLiteral(k))),
       LetStatement("after", Call1("f", IntegerLiteral(k))) >>

ReturnPrograms == {ReturnInCall(k) : k \in ReturnDepths}

ScopePrograms == AssignPrograms \cup LoopSumPrograms \cup ReturnPrograms

InitScope ==
    /\ InitMachine
    /\ prog \in ScopePrograms
    /\ files = NoFiles

SpecScope == InitScope /\ [][Next]_vars

---------------------------------------------------------------------------
(* Claims about scopes, checked under SpecScope *)

IdentifierNotFound(name) == newError(<<"identifier not found: ", name>>)

\* no environment holds a binding of name
BoundNowhere(name) == \A e \in 1..Len(envs) : name \notin DOMAIN envs[e].store

\* Eval returned val for the statement node somewhere in the run
Returned(node, val) ==
    \E q \in 1..Len(trace) :
        trace[q].ev = "exit" /\ trace[q].node = node /\ trace[q].val = val

\* C11: an assignment x = e with x bound in no scope from the current one
\* outward evaluates to the Error identifier not found: x and binds x in no
\* scope; with x bound in the current or an enclosing scope it evaluates to
\* the assigned value, and a later lookup of x in the current scope yields it.
C11_AssignmentScope ==
    \A u \in ClosureInts : \A v \in ClosureInts :
        /\ (prog = AssignUnbound(v) /\ log # <<>>) =>
              /\ log = <<IdentifierNotFound("x")>>
              /\ halted /\ result = IdentifierNotFound("x")
              /\ BoundNowhere("x")
        /\ (prog = AssignBound(u, v) /\ Len(log) > 1) =>
              /\ log[2] = Integer(v)
              /\ Global("x") = Integer(v)
              /\ Len(log) > 2 => (log[3] = Nil /\ Global("r") = Integer(v))
        /\ (prog = AssignEnclosing(u, v) /\ Len(log) > 2) =>
              /\ Returned(AssignmentStatement("x", IntExpr(v)), Integer(v))
              /\ log[3] = Nil
              /\ Global("r") = Integer(v)
        /\ (prog = AssignUnboundInCall(v) /\ Len(log) > 1) =>
              /\ Returned(AssignmentStatement("y", IntExpr(v)), IdentifierNotFound("y"))
              /\ log[2] = IdentifierNotFound("y")
              /\ halted
              /\ BoundNowhere("y") /\ BoundNowhere("r")

\* C11 witness: an assignment in a function body to an x bound only in the
\* enclosing scope has been made and read back
C11_Witness ==
    /\ prog = AssignEnclosing(0, 1)
    /\ pc > 3
    /\ Global("r") = Integer(1)

---------------------------------------------------------------------------
(* Array programs: let a = [...]; let r = a[<i>]; a[<i>] = <v> *)

ArrayIndexes == (0 - 1)..MaxLen
StoredValues == {7, 8}

ArrayProgram(elems, i, v) ==
    << LetStatement("a", ArrayOf(elems)),
       LetStatement("r", IndexExpression(Identifier("a"), IntExpr(i))),
       ExpressionStatement(
           IndexAssignmentExpression(Identifier("a"), IntExpr(i), IntegerLiteral(v))) >>

ArrayPrograms ==
    {ArrayProgram(elems, i, v) :
        elems \in SeqsUpTo(LoopInts, MaxLen), i \in ArrayIndexes, v \in StoredValues}

InitArray ==
    /\ InitMachine
    /\ prog \in ArrayPrograms
    /\ files = NoFiles

SpecArray == InitArray /\ [][Next]_vars

---------------------------------------------------------------------------
(* Claims about arrays, checked under SpecArray *)

IntegerObjects(elems) == [j \in 1..Len(elems) |-> Integer(elems[j])]

\* C12: for an array a of length n and an index i with i < 0 or i >= n, the
\* read a[i] is NULL and the write a[i] = v is the Error array index out of
\* bounds: i and leaves the elements and the length of a as they were; for
\* 0 <= i < n the read is element i and the write replaces exactly element i
\* and evaluates to v.
C12_IndexBounds ==
    \A elems \in SeqsUpTo(LoopInts, MaxLen) : \A i \in ArrayIndexes : \A v \in StoredValues :
        LET n == Len(elems)
            inside == 0 <= i /\ i < n
        IN  /\ (prog = ArrayProgram(elems, i, v) /\ Len(log) > 1) =>
                /\ log[2] = Nil
                /\ Global("r") = IF inside THEN Integer(elems[i + 1]) ELSE NULL
                /\ Len(log) = 2 => arrs[Global("a").a] = IntegerObjects(elems)
            /\ (prog = ArrayProgram(elems, i, v) /\ Len(log) > 2) =>
                /\ log[3] = IF inside THEN Integer(v)
                            ELSE newError(<<"array index out of bounds: ", ToString(i)>>)
                /\ Len(arrs[Global("a").a]) = n
                /\ \A j \in 1..n :
                      arrs[Global("a").a][j] =
                          IF inside /\ j = i + 1 THEN Integer(v) ELSE Integer(elems[j])

\* C12 witness: a write one past the end of a two-element array has failed
C12_Witness ==
    /\ prog = ArrayProgram(<<0, 1>>, 2, 7)
    /\ Len(log) = 3
    /\ isError(log[3])
    /\ Global("r") = NULL

---------------------------------------------------------------------------
(* Column programs: load data.csv; let v = read row <R> col <C> [where F] *)

RowIndexes == {0 - 2} \cup 0..MaxRows
ColumnFilters == {NoNode, ReadFilterExpression(AGE, "!=", IntegerLiteral(3))}

ColumnProgram(rowIndex, column, filter) ==
    << LoadStatement("data.csv"),
       LetStatement("v", ReadExpression(rowIndex, column, filter)) >>

ColumnPrograms ==
    {ColumnProgram(rowIndex, column, filter) :
        rowIndex \in RowIndexes, column \in {NAME, AGE}, filter \in ColumnFilters}

InitColumn ==
    /\ InitMachine
    /\ prog \in ColumnPrograms
    /\ files \in TableFiles

SpecColumn == InitColumn /\ [][Next]_vars

---------------------------------------------------------------------------
(* Claims about read ... col, checked under SpecColumn *)

\* the rows of data.csv that row selection rowIndex picks (-2 is *)
RowsSelected(rowIndex) ==
    IF rowIndex = -2 THEN InputRows
    ELSE IF 0 <= rowIndex /\ rowIndex < Len(InputRows) THEN <<InputRows[rowIndex + 1]>>
    ELSE <<>>

\* the rows of q that pass the filter (every row when there is none)
RowsPassing(q, filter) ==
    LET Keep(row) ==
            \/ filter = NoNode
            \/ /\ filter # NoNode
               /\ \E k \in CellIntegers :
                     /\ Denotes(row[filter.columnName], k)
                     /\ Compare(filter.operator, k, filter.value.int)
    IN  SelectSeq(q, Keep)

\* the object a cell is read as
CellObject(text) ==
    IF \E k \in CellIntegers : Denotes(text, k)
    THEN Integer(CHOOSE k \in CellIntegers : Denotes(text, k))
    ELSE String(text)

\* C13: read row R col C [where F], C a header of the active table, yields
\* an Array with one element per row that passes row selection R and filter
\* F, in row order; the element is Integer k when the cell is a decimal
\* numeral of k, and a String holding the cell text otherwise.
C13_ReadColumn ==
    (prog \in ColumnPrograms /\ Len(log) > 1) =>
        LET re == prog[2].value
            rows == RowsPassing(RowsSelected(re.rowIndex), re.filter)
            v == Global("v")
        IN  /\ log[2] = Nil
            /\ v.t = "ARRAY"
            /\ arrs[v.a] = [j \in 1..Len(rows) |-> CellObject(rows[j][re.colIndex])]

\* C13 witness: read row * col age where age != 3 gave an Integer from a
\* signed cell after dropping a row whose cell is not an integer
C13_Witness ==
    /\ prog = ColumnProgram(0 - 2, AGE, ReadFilterExpression(AGE, "!=", IntegerLiteral(3)))
    /\ Len(log) > 1
    /\ Len(InputRows) = 2
    /\ InputRows[1][AGE] = <<"|">>
    /\ arrs[Global("v").a] = <<Integer(7)>>

\* C13 witness for text cells: read row 1 col name gave the one String
C13_WitnessString ==
    /\ prog = ColumnProgram(1, NAME, NoNode)
    /\ Len(log) > 1
    /\ arrs[Global("v").a] = <<String(<<"|">>)>>


--------------------------------------------------------------------------
(* The lexer (lexer/lexer.go).  The input is a sequence of characters; the
   NUL byte that stands for the end of the input is the empty string. *)

NUL == ""
LowerCase == <<"a", "b", "c", "d", "e", "f", "g", "h", "i", "j", "k", "l", "m", "n", "o", "p", "q", "r", "s", "t", "u", "v", "w", "x", "y", "z">>
UpperCase == <<"A", "B", "C", "D", "E", "F", "G", "H", "I", "J", "K", "L", "M", "N", "O", "P", "Q", "R", "S", "T", "U", "V", "W", "X", "Y", "Z">>

isLetter(ch) ==
    \/ \E i \in 1..Len(LowerCase) : ch = LowerCase[i] \/ ch = UpperCase[i]
    \/ ch \in {"_", ".", "/"}

isDigit(ch) == ch \in {"0", "1", "2", "3", "4", "5", "6", "7", "8", "9"}

\* strings.ToLower, one character
ToLowerChar(ch) ==
    IF \E i \in 1..Len(UpperCase) : ch = UpperCase[i]
    THEN LowerCase[CHOOSE i \in 1..Len(UpperCase) : ch = UpperCase[i]]
    ELSE ch

\* token.keywords
keywords ==
    {<<<<"l", "o", "a", "d">>, "LOAD">>,
     <<<<"r", "e", "a", "d">>, "READ">>,
     <<<<"u", "p", "d", "a", "t", "e">>, "UPDATE">>,
     <<<<"d", "e", "l", "e", "t", "e">>, "DELETE">>,
     <<<<"r", "o", "w">>, "ROW">>,
     <<<<"c", "o", "l">>, "COL">>,
     <<<<"w", "h", "e", "r", "e">>, "WHERE">>,
     <<<<"f", "n">>, "FUNCTION">>,
     <<<<"l", "e", "t">>, "LET">>,
     <<<<"t", "r", "u", "e">>, "TRUE">>,
     <<<<"f", "a", "l", "s", "e">>, "FALSE">>,
     <<<<"i", "f">>, "IF">>,
     <<<<"e", "l", "s", "e">>, "ELSE">>,
     <<<<"r", "e", "t", "u", "r", "n">>, "RETURN">>,
     <<<<"s", "a", "v", "e">>, "SAVE">>,
     <<<<"a", "s">>, "AS">>,
     <<<<"f", "o", "r">>, "FOR">>,
     <<<<"i", "n">>, "IN">>}

\* token.LookupIdent: the keyword's type, whatever the case of the letters,
\* and IDENT for every other text
LookupIdent(ident) ==
    LET lowercaseIdent == [i \in 1..Len(ident) |-> ToLowerChar(ident[i])]
    IN  IF \E kw \in keywords : kw[1] = lowercaseIdent
        THEN (CHOOSE kw \in keywords : kw[1] = lowercaseIdent)[2]
        ELSE "IDENT"

\* lexer.New before its readChar; position and readPosition count from 0
Lexer(input) ==
    [input |-> input, position |-> 0, readPosition |-> 0, ch |-> NUL,
     Line |-> 1, Column |-> 1]

\* the character that readChar or peekChar finds at readPosition
charAt(l) ==
    IF l.readPosition >= Len(l.input) THEN NUL ELSE l.input[l.readPosition + 1]

readChar(l) ==
    [l EXCEPT !.ch = charAt(l),
              !.position = l.readPosition,
              !.readPosition = @ + 1,
              !.Line = IF charAt(l) = "\n" THEN @ + 1 ELSE @,
              !.Column = IF charAt(l) = "\n" THEN 1 ELSE @ + 1]

NewLexer(input) == readChar(Lexer(input))

peekChar(l) == charAt(l)

\* l.input[from:to]
InputSlice(l, from, to) == SubSeq(l.input, from + 1, to)

RECURSIVE skipWhitespace(_)
skipWhitespace(l) ==
    IF l.ch \in {" ", "\t", "\r"} THEN skipWhitespace(readChar(l)) ELSE l

\* the lexer after the loop of readIdentifier
RECURSIVE afterIdentifier(_)
afterIdentifier(l) == IF isLetter(l.ch) THEN afterIdentifier(readChar(l)) ELSE l

readIdentifier(l) ==
    [lit |-> InputSlice(l, l.position, afterIdentifier(l).position),
     l |-> afterIdentifier(l)]

RECURSIVE afterNumber(_)
afterNumber(l) == IF isDigit(l.ch) THEN afterNumber(readChar(l)) ELSE l

readNumber(l) ==
    [lit |-> InputSlice(l, l.position, afterNumber(l).position),
     l |-> afterNumber(l)]

\* the lexer after the loop of readString: at the closing quote, at a
\* newline or at the end of the input
RECURSIVE afterString(_)
afterString(l) ==
    IF readChar(l).ch \in {"\"", NUL, "\n"} THEN readChar(l)
    ELSE afterString(readChar(l))

readString(l) ==
    [lit |-> InputSlice(l, l.position + 1, afterString(l).position),
     l |-> afterString(l)]

RECURSIVE afterComment(_)
afterComment(l) ==
    IF readChar(l).ch \in {NUL, "\n"} THEN readChar(l)
    ELSE afterComment(readChar(l))

\* strings.Trim(s, " ")
RECURSIVE TrimSpaces(_)
TrimSpaces(s) ==
    IF s = <<>> THEN s
    ELSE IF Head(s) = " " THEN TrimSpaces(Tail(s))
    ELSE IF s[Len(s)] = " " THEN TrimSpaces(SubSeq(s, 1, Len(s) - 1))
    ELSE s

Token(type, lit) == [type |-> type, lit |-> lit]
EOF == Token("EOF", <<>>)
newToken(tokenType, ch) == Token(tokenType, <<ch>>)

readComment(l) ==
    [tok |-> Token("#", TrimSpaces(InputSlice(l, l.position + 1,
                                              afterComment(l).position))),
     l |-> afterComment(l)]

\* the one-character tokens whose type is the character
SingleCharTokens == {"+", "-", "/", "*", "<", ">", ";", ",", "(", ")", "{", "}", "[", "]"}

\* NextToken on a lexer whose whitespace is skipped: the token and the lexer
\* after it.  Blank, tab and carriage return are whitespace; a newline is a
\* token of its own, and it is counted in Line a second time here.
scanToken(l) ==
    IF l.ch = "#"
    THEN [tok |-> readComment(l).tok, l |-> readChar(readComment(l).l)]
    ELSE IF l.ch \in {"=", "!"} /\ peekChar(l) = "="
    THEN [tok |-> Token(IF l.ch = "=" THEN "==" ELSE "!=", <<l.ch, "=">>),
          l |-> readChar(readChar(l))]
    ELSE IF l.ch = "=" THEN [tok |-> newToken("=", l.ch), l |-> readChar(l)]
    ELSE IF l.ch = "!" THEN [tok |-> newToken("!", l.ch), l |-> readChar(l)]
    ELSE IF l.ch = "\""
    THEN [tok |-> Token("STRING", readString(l).lit),
          l |-> readChar(readString(l).l)]
    ELSE IF l.ch \in SingleCharTokens
    THEN [tok |-> newToken(l.ch, l.ch), l |-> readChar(l)]
    ELSE IF l.ch = "\n"
    THEN [tok |-> newToken("NEWLINE", l.ch),
          l |-> readChar([l EXCEPT !.Line = @ + 1, !.Column = 0])]
    ELSE IF l.ch = NUL THEN [tok |-> EOF, l |-> readChar(l)]
    ELSE IF isLetter(l.ch)
    THEN [tok |-> Token(LookupIdent(readIdentifier(l).lit), readIdentifier(l).lit),
          l |-> readIdentifier(l).l]
    ELSE IF isDigit(l.ch)
    THEN [tok |-> Token("INT", readNumber(l).lit), l |-> readNumber(l).l]
    ELSE [tok |-> newToken("ILLEGAL", l.ch), l |-> readChar(l)]

NextToken(l) == scanToken(skipWhitespace(l))

--------------------------------------------------------------------------
(* The parser (parser/parser.go) and the driver StartFileAllAtOnce, which
   parses the whole file and then evaluates the statements one by one. *)

\* the text of a name as a string
RECURSIVE Name(_)
Name(lit) == IF lit = <<>> THEN "" ELSE Head(lit) \o Name(Tail(lit))

\* the zero token.Token
NoToken == Token("", <<>>)

curToken(p) == p.curToken
peekToken(p) == p.peekToken

\* nextToken with the token and the lexer that l.NextToken() gave
advance(p, next) ==
    [p EXCEPT !.prevToken = p.curToken,
              !.curToken = p.peekToken,
              !.peekToken = next.tok,
              !.l = next.l]
nextToken(p) == advance(p, NextToken(p.l))

\* parser.New: curToken is the first token, peekToken the second
NewParser(l) ==
    nextToken(nextToken([l |-> l, prevToken |-> NoToken, curToken |-> NoToken,
                         peekToken |-> NoToken, errors |-> <<>>]))

\* a ParserError; the line and the column are those the LEXER is at, which
\* has read the peek token
ParserError(message, line, column) ==
    [message |-> message, line |-> line, column |-> column]

addError(p, message) ==
    [p EXCEPT !.errors = Append(@, ParserError(message, p.l.Line, p.l.Column))]
peekError(p, t) ==
    addError(p, <<"expected next token to be ", t, ", got ",
                  peekToken(p).type, " instead">>)
noPrefixParseFnError(p, t) ==
    addError(p, <<"no prefix parse function for ", t, " found">>)

expectPeek(p, t) ==
    IF peekToken(p).type = t THEN [ok |-> TRUE, p |-> nextToken(p)]
    ELSE [ok |-> FALSE, p |-> peekError(p, t)]

\* the precedence levels, and the precedences table
LOWEST == 1
EQUALS == 2
LESSGREATER == 3
SUM == 4
PRODUCT == 5
CALL == 7
INDEX == 8
ASSIGN == 9
precedences(type) ==
    IF type \in {"==", "!="} THEN EQUALS
    ELSE IF type \in {"<", ">"} THEN LESSGREATER
    ELSE IF type \in {"+", "-"} THEN SUM
    ELSE IF type \in {"/", "*"} THEN PRODUCT
    ELSE IF type = "(" THEN CALL
    ELSE IF type = "[" THEN INDEX
    ELSE IF type = "=" THEN ASSIGN
    ELSE LOWEST
peekPrecedence(p) == precedences(peekToken(p).type)
curPrecedence(p) == precedences(curToken(p).type)

skipSemicolon(p) == IF peekToken(p).type = ";" THEN nextToken(p) ELSE p

\* the ast.LocationExpression every failed parseLocationExpression returns
InvalidLocation == ReadExpression(-1, <<>>, NoNode)
invalidLocation(p, message) == [node |-> InvalidLocation, p |-> addError(p, message)]

\* the tokens with a prefix parse function that the scripts use (the scripts
\* have no bracket, brace, parenthesis, `!`, `-` prefix, boolean, if or fn),
\* and the tokens whose infix function is parseInfixExpression
PrefixTokens == {"IDENT", "INT", "STRING", "READ"}
InfixTokens == {"+", "-", "/", "*", "==", "!=", "<", ">"}

\* parseExpression: the prefix function, then the infix functions of the
\* tokens that bind tighter than precedence.  parseIndexAssignment, the infix
\* function of ASSIGN, returns nil when the left side is no index expression,
\* which is always so with these tokens.
\*
\* parseLocationExpression, entered with the token after `read` as curToken:
\* ROW, then INT or `*`, then nothing, or COL and a name, or WHERE and a
\* filter, or both.  Every failure records one error and returns with the
\* offending token still the current one.
RECURSIVE parseExpression(_, _), parseInfixFrom(_, _, _), parsePrefix(_),
          parseInfixOf(_, _), parseInfixRight(_, _, _, _),
          parseLocationExpression(_), locationIndex(_), locationAfterIndex(_, _),
          locationModifier(_, _), locationColumn(_, _),
          locationFilter(_, _, _), locationOperator(_, _, _, _),
          locationValue(_, _, _, _), locationFiltered(_, _, _, _)
parsePrefix(p) ==
    LET tok == curToken(p)
    IN  IF tok.type = "IDENT" THEN [node |-> Identifier(Name(tok.lit)), p |-> p]
        ELSE IF tok.type = "INT"
        THEN [node |-> IntegerLiteral(ParseInt(tok.lit).n), p |-> p]
        ELSE IF tok.type = "STRING" THEN [node |-> StringLiteral(tok.lit), p |-> p]
        ELSE parseLocationExpression(nextToken(p))
parseExpression(p, precedence) ==
    IF curToken(p).type \notin PrefixTokens
    THEN [node |-> NoNode, p |-> noPrefixParseFnError(p, curToken(p).type)]
    ELSE parseInfixOf(parsePrefix(p), precedence)
parseInfixOf(left, precedence) == parseInfixFrom(left.p, left.node, precedence)
parseInfixRight(right, leftExp, operator, precedence) ==
    parseInfixFrom(right.p, InfixExpression(leftExp, operator, right.node),
                   precedence)
parseInfixFrom(p, leftExp, precedence) ==
    IF peekToken(p).type # ";" /\ precedence < peekPrecedence(p)
    THEN IF peekToken(p).type \in InfixTokens
         THEN parseInfixRight(
                  parseExpression(nextToken(nextToken(p)), peekPrecedence(p)),
                  leftExp, peekToken(p).type, precedence)
         ELSE parseInfixFrom(nextToken(p), NoNode, precedence)
    ELSE [node |-> leftExp, p |-> p]

parseLocationExpression(p) ==
    IF curToken(p).type # "ROW"
    THEN invalidLocation(p, <<"READ: expected first modifier key to be ROW, got ",
                              curToken(p).type>>)
    ELSE locationIndex(nextToken(p))
locationIndex(p) ==
    IF curToken(p).type \notin {"INT", "*"}
    THEN invalidLocation(p,
             <<"READ: expected first modifier value to be INT or ASTERISK, got ",
               curToken(p).type>>)
    ELSE locationAfterIndex(p, IF curToken(p).type = "INT"
                               THEN ParseInt(curToken(p).lit).n ELSE -2)
locationAfterIndex(p, rowIndex) ==
    IF peekToken(p).type \in {";", "EOF"}
    THEN [node |-> ReadExpression(rowIndex, <<>>, NoNode), p |-> nextToken(p)]
    ELSE locationModifier(nextToken(p), rowIndex)
locationModifier(p, rowIndex) ==
    IF curToken(p).type \notin {"COL", "WHERE"}
    THEN invalidLocation(p, <<"READ: expected second modifier to be COL or WHERE, got ",
                              peekToken(p).type>>)
    ELSE IF curToken(p).type = "COL" THEN locationColumn(nextToken(p), rowIndex)
    ELSE locationFilter(nextToken(p), rowIndex, <<>>)
locationColumn(p, rowIndex) ==
    IF peekToken(p).type \in {";", "EOF"}
    THEN [node |-> ReadExpression(rowIndex, curToken(p).lit, NoNode),
          p |-> nextToken(p)]
    ELSE IF peekToken(p).type # "WHERE"
    THEN invalidLocation(p, <<"READ: expected WHERE token to follow COL, got ",
                              peekToken(p).type>>)
    ELSE locationFilter(nextToken(nextToken(p)), rowIndex, curToken(p).lit)
locationFilter(p, rowIndex, colIndex) ==
    IF curToken(p).type # "IDENT"
    THEN invalidLocation(p, <<"READ: expected column name to be IDENT, got ",
                              curToken(p).type>>)
    ELSE locationOperator(nextToken(p), rowIndex, colIndex, curToken(p).lit)
locationOperator(p, rowIndex, colIndex, columnName) ==
    IF curToken(p).type \notin {"==", "!=", "<", ">"}
    THEN invalidLocation(p,
             <<"READ: expected operator to be one of [EQ, NOT_EQ, LT, GT] got ",
               curToken(p).type>>)
    ELSE locationValue(nextToken(p), rowIndex, colIndex,
                       [columnName |-> columnName, operator |-> curToken(p).type])
locationValue(p, rowIndex, colIndex, filter) ==
    IF curToken(p).type \notin {"STRING", "INT"}
    THEN invalidLocation(p, <<"READ: expected value to be either STRING or INT, got ",
                              curToken(p).type>>)
    ELSE locationFiltered(parseExpression(p, LOWEST), rowIndex, colIndex, filter)
locationFiltered(value, rowIndex, colIndex, filter) ==
    [node |-> ReadExpression(rowIndex, colIndex,
                  ReadFilterExpression(filter.columnName, filter.operator,
                                       value.node)),
     p |-> skipSemicolon(value.p)]

parseReadExpression(p) == parseLocationExpression(nextToken(p))
parseReadStatement(p) ==
    [node |-> ReadStatement(parseReadExpression(p).node),
     p |-> parseReadExpression(p).p]

\* parseReturnStatement: the expression after `return`, and a `;` if one follows
returned(value) ==
    [node |-> ReturnStatement(value.node), p |-> skipSemicolon(value.p)]
parseReturnStatement(p) == returned(parseExpression(nextToken(p), LOWEST))

\* the nil *ast.LetStatement parseLetStatement returns on a failed expectPeek:
\* as an ast.Statement it is not nil, so ParseProgram appends it
NilLetStatement == [k |-> "nil *ast.LetStatement"]

parseLetStatement(p) ==
    LET ident == expectPeek(p, "IDENT")
        name == Name(curToken(ident.p).lit)
        assign == expectPeek(ident.p, "=")
        value == parseExpression(nextToken(assign.p), LOWEST)
    IN  IF ~ident.ok THEN [node |-> NilLetStatement, p |-> ident.p]
        ELSE IF ~assign.ok THEN [node |-> NilLetStatement, p |-> assign.p]
        ELSE [node |-> LetStatement(name, value.node), p |-> skipSemicolon(value.p)]

parseAssignmentStatement(p) ==
    LET value == parseExpression(nextToken(nextToken(p)), LOWEST)
    IN  [node |-> AssignmentStatement(Name(curToken(p).lit), value.node),
         p |-> skipSemicolon(value.p)]

parseExpressionStatement(p) ==
    IF curToken(p).type = "IDENT" /\ peekToken(p).type = "="
    THEN parseAssignmentStatement(p)
    ELSE LET expression == parseExpression(p, LOWEST)
         IN  [node |-> ExpressionStatement(expression.node),
              p |-> skipSemicolon(expression.p)]

\* parseStatement for the statements the scripts use (no load, save or for)
parseStatement(p) ==
    IF curToken(p).type = "LET" THEN parseLetStatement(p)
    ELSE IF curToken(p).type = "READ" THEN parseReadStatement(p)
    ELSE IF curToken(p).type = "RETURN" THEN parseReturnStatement(p)
    ELSE parseExpressionStatement(p)

\* ParseProgram: statements until EOF, one more token consumed after each
RECURSIVE ParseProgramFrom(_, _)
ParseProgramFrom(p, statements) ==
    IF curToken(p).type = "EOF" THEN [statements |-> statements, p |-> p]
    ELSE LET stmt == parseStatement(p)
         IN  ParseProgramFrom(nextToken(stmt.p), Append(statements, stmt.node))
ParseProgram(p) == ParseProgramFrom(p, <<>>)

\* StartFileAllAtOnce: `len(p.Errors) != 0`
hasParserErrors_never(errs) == FALSE
hasParserErrors(errs) == Len(errs) # 0

\* ParseProgram has returned: the program and the parser's errors
Parsed(parsed) ==
    /\ prog' = parsed.statements
    /\ errors' = parsed.p.errors

\* StartFileAllAtOnce up to the loop: parse the file, and return when the
\* parser recorded an error
StartFileParse ==
    /\ pc = 0
    /\ Parsed(ParseProgram(NewParser(NewLexer(script))))
    /\ halted' = hasParserErrors(errors')
    /\ pc' = 1
    /\ UNCHANGED <<lexer, tokens, script, result, envs, arrs, tbls, rowArrs, files, log, trace>>

\* one iteration of StartFileAllAtOnce's loop: Eval of the next statement in
\* the one environment, and return when the value is an Error.  Eval of the
\* nil *ast.LetStatement reads through the nil pointer.
StartFileStep ==
    /\ ~halted
    /\ pc \in 1..Len(prog)
    /\ Evaluated(IF prog[pc] = NilLetStatement THEN R(Panic, EvalState)
                 ELSE Eval(prog[pc], 1, EvalState))
    /\ result' = log'[Len(log')]
    /\ halted' = (log'[Len(log')].t \in {"ERROR", "panic"})
    /\ pc' = pc + 1
    /\ UNCHANGED <<lexer, tokens, script, errors, prog>>

\* the loop is over: StartFileAllAtOnce returns
StartFileReturn ==
    /\ ~halted
    /\ pc > Len(prog)
    /\ halted' = TRUE
    /\ UNCHANGED <<lexer, tokens, script, errors, prog, pc, result, envs, arrs, tbls, rowArrs,
                   files, log, trace>>

NextDriver == StartFileParse \/ StartFileStep \/ StartFileReturn

\* The scripts: up to MaxStmts of these lines, each followed by a blank;
\* some the parser accepts and some it does not
LineLetA == <<"l", "e", "t", " ", "a", " ", "=", " ", "5", ";">>
LineLetNoName == <<"l", "e", "t", " ", "=", " ", "7", ";">>
LineLetNoAssign == <<"l", "e", "t", " ", "b", " ", "a", ";">>
LineA == <<"a", ";">>
LineAssignA == <<"a", " ", "=", " ", "7">>
LinePlus == <<"+", " ", "5", ";">>
LineSum == <<"a", " ", "+", " ", "5", ";">>
LineString == <<"\"", "s", "\"", " ", "+", " ", "a">>
Lines == {LineLetA, LineLetNoName, LineLetNoAssign, LineA, LineAssignA,
          LinePlus, LineSum, LineString}

RECURSIVE Concat(_)
Concat(seqs) ==
    IF seqs = <<>> THEN <<>> ELSE Head(seqs) \o <<" ">> \o Concat(Tail(seqs))

Scripts == { Concat(ls) : ls \in UNION { [1..n -> Lines] : n \in 0..MaxStmts } }

InitDriver ==
    /\ lexer = NoLexer
    /\ tokens = <<>>
    /\ script \in Scripts
    /\ errors = <<>>
    /\ prog = <<>>
    /\ pc = 0
    /\ result = Nil
    /\ halted = FALSE
    /\ envs = <<NewEnvironment>>
    /\ arrs = <<>>
    /\ tbls = <<>>
    /\ rowArrs = <<>>
    /\ files = NoFiles
    /\ log = <<>>
    /\ trace = <<>>

SpecDriver == InitDriver /\ [][NextDriver]_vars

\* C14: when the parser has recorded at least one error, the driver evaluates
\* none of the statements of the program: nothing is entered, no statement has
\* a value, and the environment, the heaps and the files are as they were
\* before the file was read.
C14_ParseErrorsSkipEvaluation ==
    errors # <<>> =>
        /\ halted
        /\ log = <<>>
        /\ trace = <<>>
        /\ envs = <<NewEnvironment>>
        /\ arrs = <<>>
        /\ tbls = <<>>
        /\ files = NoFiles

\* a script whose first line parses to `let a = 5` and whose second line the
\* parser rejects
C14_Witness ==
    /\ pc = 1
    /\ Len(errors) > 0
    /\ Len(prog) > 1
    /\ prog[1] = LetStatement("a", IntegerLiteral(5))
    /\ halted

--------------------------------------------------------------------------
(* Programs of one infix expression over two string literals *)

Letters == {"a", "b"}
StringOperands == SeqsUpTo(Letters, MaxLen)
InfixOperators == {"+", "-", "*", "/", "<", ">", "==", "!="}

StringProgram(l, op, r) ==
    << ExpressionStatement(InfixExpression(StringLiteral(l), op, StringLiteral(r))) >>

StringPrograms ==
    {StringProgram(l, op, r) :
        l \in StringOperands, op \in InfixOperators, r \in StringOperands}

InitString ==
    /\ InitMachine
    /\ prog \in StringPrograms
    /\ files = NoFiles

SpecString == InitString /\ [][Next]_vars

--------------------------------------------------------------------------
(* Claims about strings, checked under SpecString *)

\* C15: on two String operands `+` is the concatenation, and every other
\* infix operator, == and != included, is the Error
\* `unknown operator: STRING <op> STRING`.
C15_StringInfix ==
    Len(log) > 0 =>
        LET e == prog[1].expr
        IN  log[1] = IF e.op = "+" THEN String(e.left.str \o e.right.str)
                     ELSE newError(<<"unknown operator: ", "STRING", e.op, "STRING">>)

\* what the evaluator does: == and != are decided before the operands' types
\* are looked at, and yield a Boolean
C15_ComparisonIsBoolean ==
    Len(log) > 0 /\ prog[1].expr.op \in {"==", "!="} => log[1].t = "BOOLEAN"

--------------------------------------------------------------------------
(* Programs that pop from and push onto tables, over data.csv with the
   headers name and age and all.csv with the headers city and zip *)

CITY == <<"c", "i", "t", "y">>
ZIP == <<"z", "i", "p">>

MergeRecords == { <<<<"|">>, <<"3">>>>, <<<<"|">>, <<"|">>>>, <<<<>>, <<"7">>>> }
OtherRecords == { <<>>, << <<<<"|">>, <<"5">>>> >> }

MergeFiles ==
    {[NoFiles EXCEPT !["data.csv"] = CsvFile(<<NAME, AGE>>, recs),
                     !["all.csv"] = CsvFile(<<CITY, ZIP>>, others)] :
        recs \in SeqsUpTo(MergeRecords, MaxRows), others \in OtherRecords}

Call2(fn, a1, a2) == CallExpression(Identifier(fn), <<a1, a2>>)

ArrayXInt == ArrayLiteral(<<StringLiteral(<<"x">>), IntegerLiteral(9)>>)
ArrayXY == ArrayLiteral(<<StringLiteral(<<"x">>), StringLiteral(<<"y">>)>>)
Array2D == ArrayLiteral(<<ArrayXInt,
                          ArrayLiteral(<<StringLiteral(<<"y">>), IntegerLiteral(8)>>)>>)
Pushed == {IntegerLiteral(5), StringLiteral(<<"x">>), ArrayXInt, ArrayXY, Array2D,
           Identifier("t")}
Coerced == {ArrayXInt, ArrayXY, Array2D, ArrayLiteral(<<>>)}

\* load data.csv; let t = csv; let p = pop(t); load all.csv;
\* let q = push(p, csv); let f = fill_empty(q, "name", "j")
PopPushOther ==
    << LoadStatement("data.csv"),
       LetStatement("t", Identifier("csv")),
       LetStatement("p", Call1("pop", Identifier("t"))),
       LoadStatement("all.csv"),
       LetStatement("q", Call2("push", Identifier("p"), Identifier("csv"))),
       LetStatement("f", Call3("fill_empty", Identifier("q"), StringLiteral(NAME),
                               StringLiteral(<<"j">>))) >>

\* load data.csv; let t = read row *; let p = pop(t); let q = push(p, <v>);
\* let u = unique(q)
PopPush(v) ==
    << LoadStatement("data.csv"),
       LetStatement("t", ReadAll),
       LetStatement("p", Call1("pop", Identifier("t"))),
       LetStatement("q", Call2("push", Identifier("p"), v)),
       LetStatement("u", Call1("unique", Identifier("q"))) >>

\* load data.csv; let q = push(<array>, csv); let r = read row 0
PushOntoArray(v) ==
    << LoadStatement("data.csv"),
       LetStatement("q", Call2("push", v, Identifier("csv"))),
       LetStatement("r", ReadExpression(0, <<>>, NoNode)) >>

\* let f = fn() { load data.csv }; let t = f(); let q = push(["x", "y"], t)
PushWithoutCurrent ==
    << LetStatement("f", Fn0(Block1(LoadStatement("data.csv")))),
       LetStatement("t", Call0("f")),
       LetStatement("q", Call2("push", ArrayXY, Identifier("t"))) >>

MergePrograms ==
    {PopPushOther, PushWithoutCurrent}
    \cup {PopPush(v) : v \in Pushed}
    \cup {PushOntoArray(v) : v \in Coerced}

InitMerge ==
    /\ InitMachine
    /\ prog \in MergePrograms
    /\ files \in MergeFiles

SpecMerge == InitMerge /\ [][Next]_vars

--------------------------------------------------------------------------
(* Claims about table objects, checked under SpecMerge *)

\* the fields of table object id, with the rows its slice shows
TableObject(tables, backing, id) == CSVAt(tables, backing, CSVRef(id))

\* the statement at pc binds the value of a call or of a read
BindsOperation ==
    /\ pc <= Len(prog)
    /\ prog[pc].k = "LetStatement"
    /\ prog[pc].value.k \in {"CallExpression", "ReadExpression"}

\* C16: no statement changes a table that exists: load, read, unique,
\* fill_empty, push and pop leave the headers, the column types and the rows
\* of every table object as they are, and a table they yield is a new object.
C16_TablesNeverMutated ==
    [][ /\ Len(tbls') >= Len(tbls)
        /\ \A id \in 1..Len(tbls) :
              TableObject(tbls', rowArrs', id) = TableObject(tbls, rowArrs, id)
        /\ (BindsOperation /\ Len(log') > Len(log) /\ log'[Len(log')] = Nil) =>
              LET bound == EnvGet(envs', 1, prog[pc].name).val
              IN  bound.t = "CSV" => bound.ref > Len(tbls) ]_vars

\* pop has shortened a table of two rows and push has put a row on the
\* result, and the table first loaded still has its rows
C16_Witness ==
    /\ prog \in {PopPush(v) : v \in Pushed}
    /\ Len(log) = 4
    /\ log[4] = Nil
    /\ Len(Global("t").rows) = 2
    /\ Len(Global("p").rows) = 1
    /\ Len(Global("q").rows) = 2
    /\ Global("q").rows # Global("t").rows

\* C17: in every table object each row has exactly the headers of the table
\* as its keys.
C17_RowKeysAreHeaders ==
    \A id \in 1..Len(tbls) :
        LET csv == TableObject(tbls, rowArrs, id)
        IN  \A j \in 1..Len(csv.rows) : DOMAIN csv.rows[j] = Range(csv.headers)

\* C18: the table a load statement yields has one column type per header,
\* INTEGER where the cell of the first row parses as an integer and STRING
\* elsewhere, whether the file has data rows or only the header row.
C18_ColumnTypePerHeader ==
    \A k \in 1..Len(log) :
        (prog[k].k = "LoadStatement" /\ log[k].t = "CSV") =>
            LET csv == TableObject(tbls, rowArrs, log[k].ref)
                recs == files[prog[k].filename].records
            IN  /\ Len(csv.ctypes) = Len(csv.headers)
                /\ \A c \in 1..Len(csv.headers) :
                      csv.ctypes[c].dataType =
                          IF Len(recs) > 0 /\ (\E n \in CellIntegers : Denotes(recs[1][c], n))
                          THEN "INTEGER" ELSE "STRING"

--------------------------------------------------------------------------
(* Claims about loops and calls, checked under SpecScope *)

RECURSIVE SumOf(_)
SumOf(elems) == IF elems = <<>> THEN 0 ELSE Head(elems) + SumOf(Tail(elems))

\* the elements of the array literal the loop of a sum program runs over
SumElements(fl) == [j \in 1..Len(fl.iterable.elems) |-> fl.iterable.elems[j].int]

\* C19: an assignment in the body of a for loop to a name bound in the
\* environment around the loop is seen by the following iterations and after
\* the loop: let s = 0; for i, x in a { s = s + x } leaves the sum of a in s,
\* at the top level and in a function body alike.  A name first bound in the
\* body (t) is not bound after the loop.
C19_LoopAssignmentVisible ==
    /\ (\E elems \in SeqsUpTo(LoopInts, MaxLen) : prog = LoopSum(elems)) =>
          /\ Len(log) > 2 =>
                /\ log[2] = NULL
                /\ Global("r") = Integer(SumOf(SumElements(prog[2].fl)))
          /\ Len(log) > 3 =>
                /\ log[4] = IdentifierNotFound("t")
                /\ "t" \notin DOMAIN envs[1].store
    /\ ((\E elems \in SeqsUpTo(LoopInts, MaxLen) : prog = LoopSumInCall(elems))
           /\ Len(log) > 2) =>
              /\ log[3] = Nil
              /\ Global("r") = Integer(SumOf(SumElements(prog[2].value.body.stmts[1].fl)))
              /\ \A e \in 1..Len(envs) :
                    envs[e].outer = 1 => "t" \notin DOMAIN envs[e].store

\* the loop has added 1 and 1 to s, and t is not bound after it
C19_Witness ==
    /\ prog = LoopSum(<<1, 1>>)
    /\ Len(log) = 4
    /\ Global("r") = Integer(2)
    /\ log[4] = IdentifierNotFound("t")

\* some statement node was entered during the run
Entered(node) ==
    \E q \in 1..Len(trace) : trace[q].ev = "enter" /\ trace[q].node = node

\* what ReturnByDepth returns for the argument k
ReturnedByDepth(k) == IF k > 1 THEN 20 ELSE IF k > 0 THEN 10 ELSE 30

---------------------------------------------------------------------------
(* Shadowing programs: a function body that binds or assigns a name bound  *)
(* outside it                                                              *)

\* let x = <u>; let f = fn() { let x = <v>; x }; let r = f(); let g = x
ShadowLet(u, v) ==
    << LetStatement("x", IntExpr(u)),
       LetStatement("f", Fn0(Block2(LetStatement("x", IntExpr(v)), ExprId("x")))),
       LetStatement("r", Call0("f")),
       LetStatement("g", Identifier("x")) >>

\* let x = <u>; let f = fn(x) { x = x + 1; x }; let r = f(<v>); let g = x
ShadowParameter(u, v) ==
    << LetStatement("x", IntExpr(u)),
       LetStatement("f", FunctionLiteral(<<"x">>,
           Block2(AssignmentStatement("x",
                      InfixExpression(Identifier("x"), "+", IntegerLiteral(1))),
                  ExprId("x")))),
       LetStatement("r", Call1("f", IntExpr(v))),
       LetStatement("g", Identifier("x")) >>

\* fn() { let y = x; x = <w>; y }: the x seen on entry, then an assignment
SeenThenAssigned(w) ==
    Fn0(BlockStatement(<< LetStatement("y", Identifier("x")),
                          AssignmentStatement("x", IntExpr(w)),
                          ExprId("y") >>))

\* let x = <u>; let mk = fn() { let x = <v>; fn() { let y = x; x = <w>; y } };
\* let h = mk(); let r = h(); let s = h(); let g = x
ShadowDefining(u, v, w) ==
    << LetStatement("x", IntExpr(u)),
       LetStatement("mk", Fn0(Block2(LetStatement("x", IntExpr(v)),
                                     ExpressionStatement(SeenThenAssigned(w))))),
       LetStatement("h", Call0("mk")),
       LetStatement("r", Call0("h")),
       LetStatement("s", Call0("h")),
       LetStatement("g", Identifier("x")) >>

ShadowPrograms ==
    {ShadowLet(u, v) : u \in ClosureInts, v \in ClosureInts}
    \cup {AssignEnclosing(u, v) : u \in ClosureInts, v \in ClosureInts}
    \cup {ShadowParameter(u, v) : u \in ClosureInts, v \in ClosureInts}
    \cup {ShadowDefining(u, v, w) : u \in ClosureInts, v \in ClosureInts,
                                    w \in ClosureInts}

InitShadow ==
    /\ InitMachine
    /\ prog \in ShadowPrograms
    /\ files = NoFiles

SpecShadow == InitShadow /\ [][Next]_vars

\* the binding of name in the environment a function was defined in
DefiningEnvironment(fn, name) == EnvGet(envs, Global(fn).env, name).val

\* C21: a let or an assignment to x in a function body leaves the binding
\* of x in the function's defining environment and in the global
\* environment as it was before the call; a parameter or a local named x
\* shadows the outer x only during the call.
C21_BodyBindingIsLocal ==
    \A u \in ClosureInts : \A v \in ClosureInts : \A w \in ClosureInts :
        /\ (prog \in {ShadowLet(u, v), AssignEnclosing(u, v)} /\ Len(log) > 2) =>
              /\ Global("r") = Integer(v)
              /\ Global("x") = Integer(u)
              /\ Len(log) > 3 => Global("g") = Integer(u)
        /\ (prog = ShadowParameter(u, v) /\ Len(log) > 2) =>
              /\ Global("r") = Integer(v + 1)
              /\ Global("x") = Integer(u)
              /\ Len(log) > 3 => Global("g") = Integer(u)
        /\ (prog = ShadowDefining(u, v, w) /\ Len(log) > 3) =>
              /\ Global("r") = Integer(v)
              /\ DefiningEnvironment("h", "x") = Integer(v)
              /\ Global("x") = Integer(u)
              /\ Len(log) > 4 => Global("s") = Integer(v)
              /\ Len(log) > 5 => Global("g") = Integer(u)

\* C21 witness: a body assigned 1 to an x bound to 0 in the environment it
\* was defined in, twice, and the global x is read after the calls
C21_Witness ==
    /\ prog = ShadowDefining(-1, 0, 1)
    /\ Len(log) = 6
    /\ Global("s") = Integer(0)
    /\ Global("g") = Integer(-1)
---------------------------------------------------------------------------
(* fill_empty on a table that is not the active one *)

\* load data.csv; let t = read row * where age < <n>;
\* let r = fill_empty(t, <c>, <v>); let q = read row *; save as out.csv
FillSubset(n, c, v) ==
    << LoadStatement("data.csv"),
       LetStatement("t", ReadExpression(-2, <<>>,
           ReadFilterExpression(AGE, "<", IntegerLiteral(n)))),
       LetStatement("r", Call3("fill_empty", Identifier("t"), StringLiteral(c), v)),
       LetStatement("q", ReadAll),
       SaveStatement("", "out.csv", "csv") >>

FillSubsetPrograms ==
    {FillSubset(n, c, v) : n \in FilterValues, c \in {NAME, AGE}, v \in FillValues}

InitFill ==
    /\ InitMachine
    /\ prog \in FillSubsetPrograms
    /\ files \in TableFiles

SpecFill == InitFill /\ [][Next]_vars

\* the object bound to name in the global environment
GlobalObject(name) == EnvGet(envs, 1, name).val

\* C22: once a top-level fill_empty(t, c, v) has returned the table r, csv
\* is bound to r, also when t is a filtered subset of the loaded table: the
\* read that follows yields the rows of r and the save without a source
\* writes r.
C22_FillEmptyBindsCsv ==
    /\ Len(log) > 2 =>
          /\ GlobalObject("r").t = "CSV"
          /\ GlobalObject("csv") = GlobalObject("r")
          /\ Global("r").headers = Global("t").headers
          /\ Len(Global("r").rows) = Len(Global("t").rows)
    /\ Len(log) > 3 =>
          /\ Global("q").headers = Global("r").headers
          /\ Global("q").rows = Global("r").rows
    /\ Len(log) > 4 => files["out.csv"] = Written("csv", Global("r"))

\* C22 witness: t held one of the two loaded rows, its empty name was filled,
\* and the read and the save that followed have run
C22_Witness ==
    /\ Len(log) > 4
    /\ Len(files["data.csv"].records) = 2
    /\ Len(Global("t").rows) = 1
    /\ Global("t").rows[1][NAME] = <<>>
    /\ Global("r").rows[1][NAME] = <<"j">>
    /\ files["out.csv"].records = << <<<<"j">>, Global("t").rows[1][AGE]>> >>
---------------------------------------------------------------------------
(* Sequences of reads after one load *)

ReadExpressions ==
    {ReadExpression(i, col, f) :
        i \in RowIndexes, col \in {<<>>, AGE}, f \in ColumnFilters}

\* load data.csv; let a = <x>; let b = <y>; let c = <x>
ReadAgain(x, y) ==
    << LoadStatement("data.csv"),
       LetStatement("a", x),
       LetStatement("b", y),
       LetStatement("c", x) >>

ReadPrograms == {ReadAgain(x, y) : x \in ReadExpressions, y \in ReadExpressions}

ReadRecords == {<<<<"|">>, <<"3">>>>, <<<<>>, <<"+", "7">>>>}

ReadFiles ==
    {[NoFiles EXCEPT !["data.csv"] = CsvFile(<<NAME, AGE>>, recs)] :
        recs \in SeqsUpTo(ReadRecords, MaxRows)}

InitRead ==
    /\ InitMachine
    /\ prog \in ReadPrograms
    /\ files \in ReadFiles

SpecRead == InitRead /\ [][Next]_vars

\* what a read gave to the name it was bound to: the elements of the Array,
\* or the fields of the table
ReadResult(name) ==
    IF GlobalObject(name).t = "ARRAY"
    THEN [t |-> "ARRAY", elements |-> arrs[GlobalObject(name).a]]
    ELSE Global(name)

\* what the read expression re gives as the first read after the load
FirstRead(re) ==
    LET rows == RowsPassing(RowsSelected(re.rowIndex), re.filter)
    IN  IF re.colIndex # <<>>
        THEN [t |-> "ARRAY",
              elements |-> [j \in 1..Len(rows) |-> CellObject(rows[j][re.colIndex])]]
        ELSE CSV(<<NAME, AGE>>, InferColumnTypes(<<NAME, AGE>>, InputRows), rows)

\* C23: a read leaves the binding of csv as the load made it, so a read
\* expression gives, after any other read, what it gives as the first read
\* after the load; a row index outside the table gives a table with the
\* loaded headers and no rows, not an Error.
C23_ReadLeavesCsv ==
    /\ Len(log) > 0 =>
          /\ GlobalObject("csv") = log[1]
          /\ Global("csv") = CSV(<<NAME, AGE>>,
                                 InferColumnTypes(<<NAME, AGE>>, InputRows), InputRows)
    /\ Len(log) > 1 => ReadResult("a") = FirstRead(prog[2].value)
    /\ Len(log) > 2 => ReadResult("b") = FirstRead(prog[3].value)
    /\ Len(log) > 3 => ReadResult("c") = ReadResult("a")
    /\ \A j \in 2..Len(log) :
          LET re == prog[j].value
          IN  /\ log[j] = Nil
              /\ ( /\ re.colIndex = <<>>
                   /\ re.rowIndex >= Len(InputRows) ) =>
                     /\ ReadResult(prog[j].name).t = "CSV"
                     /\ ReadResult(prog[j].name).headers = <<NAME, AGE>>
                     /\ ReadResult(prog[j].name).rows = <<>>

\* C23 witness: read row 0 gave the first of two rows again after a read
\* with a filter that kept only the second, and a read of row 2 gave no row
C23_Witness ==
    /\ prog = ReadAgain(ReadExpression(0, <<>>, NoNode),
                        ReadExpression(0 - 2, <<>>,
                            ReadFilterExpression(AGE, "!=", IntegerLiteral(3))))
    /\ Len(log) > 3
    /\ Len(InputRows) = 2
    /\ Global("b").rows = <<InputRows[2]>>
    /\ Global("c").rows = <<InputRows[1]>>

\* C23 witness for a row index outside the table
C23_WitnessOutside ==
    /\ prog = ReadAgain(ReadExpression(MaxRows, <<>>, NoNode), ReadExpression(0, AGE, NoNode))
    /\ Len(log) > 3
    /\ Len(InputRows) = MaxRows
    /\ Global("c") = CSV(<<NAME, AGE>>, Global("csv").ctypes, <<>>)
---------------------------------------------------------------------------
(* unique on 2-D arrays, with no table loaded *)

UniqueCells == {IntegerLiteral(1), StringLiteral(<<"|">>), StringLiteral(<<>>)}

\* the rectangular arrays of m rows of n cells, as sequences of rows
RectangularArrays ==
    UNION {[1..m -> [1..n -> UniqueCells]] : m \in 1..MaxRows, n \in 1..MaxLen}

\* let a = [[...], ...]; let u = unique(a)
UniqueOfArray(a) ==
    << LetStatement("a", ArrayLiteral([i \in 1..Len(a) |-> ArrayLiteral(a[i])])),
       LetStatement("u", Call1("unique", Identifier("a"))) >>

UniqueArrayPrograms == {UniqueOfArray(a) : a \in RectangularArrays}

InitUniqueArray ==
    /\ InitMachine
    /\ prog \in UniqueArrayPrograms
    /\ files = NoFiles

SpecUniqueArray == InitUniqueArray /\ [][Next]_vars

\* the text of a cell literal
CellText(lit) == IF lit.k = "IntegerLiteral" THEN IntToStr(lit.int) ELSE lit.str

\* the rows of a that differ from every earlier row, in order, as rows of a
\* table with the headers col1..coln
DistinctRows(a) ==
    LET first == SelectSeq([i \in 1..Len(a) |-> i],
                           LAMBDA i : \A i2 \in 1..(i - 1) : a[i2] # a[i])
    IN  [q \in 1..Len(first) |->
            [h \in Range(GeneratedHeaders(Len(a[1]))) |->
                CellText(a[first[q]][CHOOSE j \in 1..Len(a[1]) :
                                        GeneratedHeaders(Len(a[1]))[j] = h])]]

\* C24: for a rectangular array a of m >= 1 rows of n >= 1 cells and no
\* table loaded, unique(a) is a table with the headers col1..coln and the
\* distinct rows of a in first-occurrence order, for every m and n.
C24_UniqueOfArray ==
    \A a \in RectangularArrays :
        (prog = UniqueOfArray(a) /\ Len(log) > 1) =>
            /\ log[2] = Nil
            /\ GlobalObject("u").t = "CSV"
            /\ Global("u").headers = GeneratedHeaders(Len(a[1]))
            /\ Global("u").rows = DistinctRows(a)

\* where the claim holds: at least as many rows as cells in a row, and no
\* two distinct rows with the same joined text
C24_UniqueOfTallArray ==
    \A a \in RectangularArrays :
        ( /\ prog = UniqueOfArray(a) /\ Len(log) > 1
          /\ Len(a[1]) <= Len(a)
          /\ \A i, i2 \in 1..Len(a) :
                a[i] # a[i2] =>
                    Join([j \in 1..Len(a[1]) |-> CellText(a[i][j])], <<"|">>)
                    # Join([j \in 1..Len(a[1]) |-> CellText(a[i2][j])], <<"|">>) ) =>
            /\ log[2] = Nil
            /\ GlobalObject("u").t = "CSV"
            /\ Global("u").headers = GeneratedHeaders(Len(a[1]))
            /\ Global("u").rows = DistinctRows(a)

\* a row with more cells than the array has rows: the call does not return
C24_UniqueOfWideArrayPanics ==
    \A a \in RectangularArrays :
        (prog = UniqueOfArray(a) /\ Len(log) > 1 /\ Len(a[1]) > Len(a)) =>
            /\ log[2] = Panic
            /\ halted
            /\ ~EnvGet(envs, 1, "u").ok
--------------------------------------------------------------------------
(* StartLexer: the tokens of a file, one NextToken per step *)

\* l.NextToken() has returned: the token is printed unless it is EOF, which
\* ends the loop
Scanned(next) ==
    /\ lexer' = next.l
    /\ tokens' = IF next.tok.type = "EOF" THEN tokens ELSE Append(tokens, next.tok)
    /\ halted' = (next.tok.type = "EOF")

StartLexerStep ==
    /\ ~halted
    /\ Scanned(NextToken(lexer))
    /\ UNCHANGED <<script, errors, prog, pc, result, envs, arrs, tbls, rowArrs,
                   files, log, trace>>

\* the inputs: texts of up to MaxLen + 2 of these characters
IdentifierChars == {"x", "1", ".", "/"}
MaxInput == MaxLen + 2
LexerInputs == SeqsUpTo(IdentifierChars \cup {" "}, MaxInput)

InitLexer ==
    /\ script \in LexerInputs
    /\ lexer = NewLexer(script)
    /\ tokens = <<>>
    /\ errors = <<>>
    /\ prog = <<>>
    /\ pc = 0
    /\ result = Nil
    /\ halted = FALSE
    /\ envs = <<NewEnvironment>>
    /\ arrs = <<>>
    /\ tbls = <<>>
    /\ rowArrs = <<>>
    /\ files = NoFiles
    /\ log = <<>>
    /\ trace = <<>>

SpecLexer == InitLexer /\ [][StartLexerStep]_vars

\* the maximal runs of characters other than the blank, in order
RECURSIVE RunsFrom(_, _)
RunsFrom(text, run) ==
    IF text = <<>> THEN (IF run = <<>> THEN <<>> ELSE <<run>>)
    ELSE IF Head(text) = " "
    THEN (IF run = <<>> THEN <<>> ELSE <<run>>) \o RunsFrom(Tail(text), <<>>)
    ELSE RunsFrom(Tail(text), Append(run, Head(text)))
Runs(text) == RunsFrom(text, <<>>)

\* C26: every maximal run of letters, digits, underscores, dots and slashes
\* that starts with a character other than a digit is one IDENT or keyword
\* token whose literal is the whole run.
C26_IdentifierRuns ==
    ( /\ halted
      /\ \A j \in 1..Len(Runs(script)) : ~isDigit(Runs(script)[j][1]) ) =>
        /\ Len(tokens) = Len(Runs(script))
        /\ \A j \in 1..Len(tokens) :
              /\ tokens[j].type = "IDENT"
              /\ tokens[j].lit = Runs(script)[j]

\* where the claim holds: runs of letters, dots and slashes that do not
\* start with a slash
C26_LetterRuns ==
    ( /\ halted
      /\ \A j \in 1..Len(Runs(script)) :
            /\ Runs(script)[j][1] # "/"
            /\ \A i \in 1..Len(Runs(script)[j]) : ~isDigit(Runs(script)[j][i]) ) =>
        /\ Len(tokens) = Len(Runs(script))
        /\ \A j \in 1..Len(tokens) :
              /\ tokens[j].type = "IDENT"
              /\ tokens[j].lit = Runs(script)[j]

\* a digit ends the identifier: the run x1 is the two tokens x and 1
C26_DigitEndsIdentifier ==
    (halted /\ script = <<"x", "1">>) =>
        tokens = <<Token("IDENT", <<"x">>), Token("INT", <<"1">>)>>
--------------------------------------------------------------------------
\* Scripts of read clauses: up to MaxStmts clauses, some of the form
\* `read row (INT | *) [col IDENT] [where IDENT OP (INT | STRING)]` and some
\* not, each followed by a blank (all on one line) or by a newline (one
\* clause a line).

\* read row 0;
ClauseRow == <<"r", "e", "a", "d", " ", "r", "o", "w", " ", "0", ";">>
\* read row * col age;
ClauseColumn ==
    <<"r", "e", "a", "d", " ", "r", "o", "w", " ", "*", " ", "c", "o", "l",
     " ", "a", "g", "e", ";">>
\* read row 1 where age > 1;
ClauseWhere ==
    <<"r", "e", "a", "d", " ", "r", "o", "w", " ", "1", " ", "w", "h", "e",
     "r", "e", " ", "a", "g", "e", " ", ">", " ", "1", ";">>
\* read row;
ClauseNoIndex == <<"r", "e", "a", "d", " ", "r", "o", "w", ";">>
\* read row x;
ClauseNameIndex == <<"r", "e", "a", "d", " ", "r", "o", "w", " ", "x", ";">>
\* read 0 row;
ClauseNoRow == <<"r", "e", "a", "d", " ", "0", " ", "r", "o", "w", ";">>
\* read row 0 where age 1;
ClauseNoOperator ==
    <<"r", "e", "a", "d", " ", "r", "o", "w", " ", "0", " ", "w", "h", "e",
     "r", "e", " ", "a", "g", "e", " ", "1", ";">>
WellFormedClauses == {ClauseRow, ClauseColumn, ClauseWhere}
MalformedClauses == {ClauseNoIndex, ClauseNameIndex, ClauseNoRow, ClauseNoOperator}
ReadClauses == WellFormedClauses \cup MalformedClauses

RECURSIVE JoinClauses(_, _)
JoinClauses(clauses, separator) ==
    IF clauses = <<>> THEN <<>>
    ELSE Head(clauses) \o <<separator>> \o JoinClauses(Tail(clauses), separator)

ClauseScripts ==
    { JoinClauses(cs, sep) :
        cs \in UNION { [1..n -> ReadClauses] : n \in 0..MaxStmts },
        sep \in {" ", "\n"} }

InitClauses ==
    /\ lexer = NoLexer
    /\ tokens = <<>>
    /\ script \in ClauseScripts
    /\ errors = <<>>
    /\ prog = <<>>
    /\ pc = 0
    /\ result = Nil
    /\ halted = FALSE
    /\ envs = <<NewEnvironment>>
    /\ arrs = <<>>
    /\ tbls = <<>>
    /\ rowArrs = <<>>
    /\ files = NoFiles
    /\ log = <<>>
    /\ trace = <<>>

SpecClauses == InitClauses /\ [][NextDriver]_vars

\* the clauses of a script with the line each is on: a clause ends with its
\* `;`, and the character after it is the separator
RECURSIVE ClausesFrom(_, _, _)
ClausesFrom(rest, clause, line) ==
    IF rest = <<>> THEN <<>>
    ELSE IF Head(rest) = ";"
    THEN <<[text |-> Append(clause, ";"), line |-> line]>>
         \o ClausesFrom(Tail(Tail(rest)), <<>>,
                        IF rest[2] = "\n" THEN line + 1 ELSE line)
    ELSE ClausesFrom(Tail(rest), Append(clause, Head(rest)), line)
ClausesOf(text) == ClausesFrom(text, <<>>, 1)

IsMalformed(clause) == clause.text \in MalformedClauses
LinesOf(records) == [i \in 1..Len(records) |-> records[i].line]

\* C25: once a script of read clauses is parsed, the parser has recorded one
\* error for each malformed clause and no other: the errors are as many as
\* the malformed clauses, and they carry, in order, the lines those clauses
\* are on.
C25_OneErrorPerMalformedClause ==
    pc >= 1 =>
        LinesOf(errors) = LinesOf(SelectSeq(ClausesOf(script), IsMalformed))

--------------------------------------------------------------------------
\* The driver against evalProgram, on scripts with a top-level return: up to
\* MaxStmts of these lines, each followed by a blank.  The parser accepts
\* every one of them.

\* return 1;
LineReturn == <<"r", "e", "t", "u", "r", "n", " ", "1", ";">>
\* a = 7;
LineAssign7 == <<"a", " ", "=", " ", "7", ";">>
\* b;
LineB == <<"b", ";">>
ReturnLines == {LineLetA, LineReturn, LineAssign7, LineA, LineB}
ReturnScripts ==
    { Concat(ls) : ls \in UNION { [1..n -> ReturnLines] : n \in 0..MaxStmts } }

InitReturn ==
    /\ lexer = NoLexer
    /\ tokens = <<>>
    /\ script \in ReturnScripts
    /\ errors = <<>>
    /\ prog = <<>>
    /\ pc = 0
    /\ result = Nil
    /\ halted = FALSE
    /\ envs = <<NewEnvironment>>
    /\ arrs = <<>>
    /\ tbls = <<>>
    /\ rowArrs = <<>>
    /\ files = NoFiles
    /\ log = <<>>
    /\ trace = <<>>

SpecReturn == InitReturn /\ [][NextDriver]_vars

\* evalProgram as a whole, from statement i on in state st: the state it
\* returns in and the number of the last statement it evaluated
RECURSIVE evalProgramFrom(_, _, _), evalProgramAfter(_, _, _)
evalProgramFrom(stmts, i, st) ==
    IF i > Len(stmts) THEN [st |-> st, last |-> i - 1]
    ELSE evalProgramAfter(stmts, i, Eval(stmts[i], 1, [st EXCEPT !.top = i]))
evalProgramAfter(stmts, i, r) ==
    IF evalProgramResult(r.v).stop THEN [st |-> r.st, last |-> i]
    ELSE evalProgramFrom(stmts, i + 1, r.st)
evalProgram(stmts, st) == evalProgramFrom(stmts, 1, st)

\* the state the driver starts the statements in
DriverStart ==
    [envs |-> <<NewEnvironment>>, arrs |-> <<>>, tbls |-> <<>>,
     rowArrs |-> <<>>, files |-> NoFiles, trace |-> <<>>, ctx |-> <<>>,
     top |-> 1]

\* the driver has evaluated the statements run evaluated, with its effects
SameRun(run) ==
    /\ Len(log) = run.last
    /\ envs = run.st.envs
    /\ arrs = run.st.arrs
    /\ tbls = run.st.tbls
    /\ rowArrs = run.st.rowArrs
    /\ files = run.st.files

\* C27: when the driver has returned from a script the parser accepted, it
\* has evaluated the statements evalProgram evaluates on the parsed program,
\* no more and no fewer, and the environment, the heaps and the files are as
\* evalProgram leaves them; so nothing after a top-level return is evaluated.
C27_DriverAsEvalProgram ==
    (halted /\ pc >= 1 /\ errors = <<>>) => SameRun(evalProgram(prog, DriverStart))

\* C27, the part on errors: when a statement evaluated to an Error, the
\* driver has returned and that statement is the last one it evaluated.
C27_DriverStopsOnError ==
    \A i \in 1..Len(log) : log[i].t = "ERROR" => (i = Len(log) /\ halted)

C27_WitnessError ==
    /\ Len(prog) = 3
    /\ Len(log) = 2
    /\ log[2].t = "ERROR"
    /\ log[1].t = "RETURN_VALUE"

--------------------------------------------------------------------------
\* Loads that fail: up to MaxStmts loads of data.csv and out.csv, where each
\* of the two files is absent, a table, empty, or has a record with fewer
\* fields than the header record.

LoadContents ==
    {Absent,
     CsvFile(<<NAME, AGE>>, <<<<<<"A">>, <<"3">>>>>>),
     CsvFile(<<>>, <<>>),
     CsvFile(<<NAME, AGE>>, <<<<<<"A">>>>>>)}
LoadFiles ==
    {[NoFiles EXCEPT !["data.csv"] = d, !["out.csv"] = o] :
        d \in LoadContents, o \in LoadContents}
LoadPrograms ==
    SeqsUpTo({LoadStatement("data.csv"), LoadStatement("out.csv")}, MaxStmts)

InitLoad ==
    /\ InitMachine
    /\ prog \in LoadPrograms
    /\ files \in LoadFiles

SpecLoad == InitLoad /\ [][Next]_vars

\* the step evaluates a load statement to an Error
LoadFailed ==
    /\ Len(log') = Len(log) + 1
    /\ log'[Len(log')].t = "ERROR"

\* C28: a load that evaluates to an Error leaves the environment as it was:
\* csv and filename are bound, or not bound, as before the statement.
C28_FailedLoadKeepsEnvironment ==
    [][LoadFailed => envs' = envs]_vars

\* C28, the part on csv: a load that evaluates to an Error leaves the binding
\* of csv, and the tables, as they were.
C28_FailedLoadKeepsCsv ==
    [][LoadFailed => /\ EnvGet(envs', 1, "csv") = EnvGet(envs, 1, "csv")
                     /\ tbls' = tbls
                     /\ rowArrs' = rowArrs]_vars

\* a load has failed after one that succeeded: csv is the table of data.csv,
\* and filename is out.csv
C28_WitnessStaleTable ==
    /\ prog = <<LoadStatement("data.csv"), LoadStatement("out.csv")>>
    /\ Len(log) = 2
    /\ log[1].t = "CSV"
    /\ log[2].t = "ERROR"
    /\ EnvGet(envs, 1, "csv").val = log[1]
    /\ EnvGet(envs, 1, "filename").val = String(<<"out.csv">>)

--------------------------------------------------------------------------
\* Infix operations on two Integers: let a = x; let b = y; a <op> b, for x
\* and y in -MaxInt..MaxInt and every operator the parser has an infix
\* function of.

SignedLiteral(n) ==
    IF n < 0 THEN PrefixExpression("-", IntegerLiteral(0 - n))
    ELSE IntegerLiteral(n)
IntegerInfix(x, op, y) ==
    <<LetStatement("a", SignedLiteral(x)),
      LetStatement("b", SignedLiteral(y)),
      ExpressionStatement(InfixExpression(Identifier("a"), op, Identifier("b")))>>
IntegerInfixPrograms ==
    {IntegerInfix(x, op, y) :
        x \in (0 - MaxInt)..MaxInt, op \in InfixOperators,
        y \in (0 - MaxInt)..MaxInt}

InitInfix ==
    /\ InitMachine
    /\ prog \in IntegerInfixPrograms
    /\ files = NoFiles

SpecInfix == InitInfix /\ [][Next]_vars

\* C29: the infix operation on the two Integers has a value that is an
\* Integer, a Boolean or an Error; it does not abort the interpreter.
C29_IntegerInfixIsValue ==
    Len(log) = 3 => log[3].t \in {"INTEGER", "BOOLEAN", "ERROR"}

\* C29 for every operation but the division by zero: the value is an Integer
\* or a Boolean.
C29_IntegerInfixButByZero ==
    (Len(log) = 3 /\ ~(prog[3].expr.op = "/" /\ Global("b") = Integer(0)))
        => log[3].t \in {"INTEGER", "BOOLEAN"}

\* C29, the division by zero: it aborts the interpreter for every dividend.
C29_DivisionByZeroPanics ==
    (Len(log) = 3 /\ prog[3].expr.op = "/" /\ Global("b") = Integer(0))
        => log[3] = Panic

C29_WitnessByZero ==
    /\ Len(log) = 3
    /\ prog[3].expr.op = "/"
    /\ Global("a") = Integer(0 - MaxInt)
    /\ Global("b") = Integer(0)
    /\ halted

--------------------------------------------------------------------------
\* Calls with any number of arguments: let f = fn(<params>) { <b> };
\* f(<args>); 1, for up to two parameters x and y, b one of x and y, and up
\* to MaxStmts arguments.

CallParameters == SeqsUpTo({"x", "y"}, 2)
CallArguments == {[j \in 1..n |-> IntegerLiteral(j)] : n \in 0..MaxStmts}
CallWith(params, b, args) ==
    <<LetStatement("f", FunctionLiteral(params,
                            Block1(ExpressionStatement(Identifier(b))))),
      ExpressionStatement(CallExpression(Identifier("f"), args)),
      ExpressionStatement(IntegerLiteral(1))>>
CallPrograms ==
    {CallWith(ps, b, as) :
        ps \in CallParameters, b \in {"x", "y"}, as \in CallArguments}

InitCall ==
    /\ InitMachine
    /\ prog \in CallPrograms
    /\ files = NoFiles

SpecCall == InitCall /\ [][Next]_vars

\* the numbers of parameters and of arguments of the call of the program
ParameterCount == Len(prog[1].value.params)
ArgumentCount == Len(prog[2].expr.args)

\* C30: the call has a value, which may be an Error, whatever the number of
\* its arguments: it does not abort the interpreter.
C30_CallIsValue ==
    Len(log) >= 2 => log[2] # Panic

\* C30 for a call with at least as many arguments as parameters: it has a
\* value; an Error stops the program, any other value lets it go on.
C30_EnoughArguments ==
    (Len(log) >= 2 /\ ArgumentCount >= ParameterCount) =>
        /\ log[2] # Panic
        /\ (log[2].t = "ERROR") = (halted /\ Len(log) = 2)

\* C30 for a call with fewer arguments than parameters: it aborts the
\* interpreter.
C30_MissingArgumentPanics ==
    (Len(log) >= 2 /\ ArgumentCount < ParameterCount) =>
        /\ log[2] = Panic
        /\ Len(log) = 2
        /\ halted

C30_WitnessMissing ==
    /\ prog = CallWith(<<"x">>, "x", <<>>)
    /\ Len(log) = 2
    /\ halted

C30_WitnessSurplus ==
    /\ prog = CallWith(<<"x">>, "x", <<IntegerLiteral(1), IntegerLiteral(2)>>)
    /\ Len(log) = 3
    /\ log[2] = Integer(1)
===========================================================================
